---- MODULE Spec2Model ----
(***************************************************************************)
(* Suggestion-integration engine of figura11y: the DescriptionEditor       *)
(* component (document, completion request manager, accept/reject popover) *)
(* and the event logger subscribed to the editor's update notifications.   *)
(*                                                                         *)
(* The document is the ProseMirror document of the editor: a sequence of   *)
(* top-level text blocks (paragraph or level-6 heading).  A block's        *)
(* content is a sequence of marked characters; its text nodes are the      *)
(* maximal runs of characters carrying the same marks.                     *)
(***************************************************************************)
EXTENDS Integers, Sequences, FiniteSets, TLC

\* ------------------------------------------------------------------ bounds
MaxCalls == 2
MaxEdits == 1
MaxBlocks == 2
MaxQA == 3
MaxSuggestions == 3
\* dependency changes and fetchData calls of one request manager
MaxDependencyChanges == 2
MaxFetches == 2
\* initialize calls of the description store
MaxInits == 3
MaxClicks == 2
MaxRequests == 2
MaxClears == 1
MaxUpdates == 2

\* ------------------------------------------------------------ value sets
Chars == {"b"}
Responses == {<<"a">>, <<"a", "b">>}
\* the longest text of a block: a response and what the user typed into it
MaxLen == 2 + MaxEdits
NULL == "null"
\* a value of type string | null
NoData == [some |-> FALSE, text |-> <<>>]
Some(t) == [some |-> TRUE, text |-> t]
ErrorMessage == "An error occurred while fetching the data."

VARIABLES
    doc,            \* editor.state.doc: sequence of blocks
    cursor,         \* editor.state.selection.$head as [blk, off]
    data,           \* completion.data
    loading,        \* completion.loading
    error,          \* completion.error
    inflight,       \* completion apiCall invocations awaiting their response
    nextId,         \* number of the next fetchData call
    popoverTarget,  \* the activated DOM element (or none)
    popoverShown,   \* confirmation popover opened
    user,           \* useUserStore user present
    description,    \* useDescriptionStore description id (0: none)
    subscribed,     \* number of "update" handlers of the event logger
    settled,        \* history: the settled fetchData calls, in settling order
    lastInsert,     \* history: where the last completion was inserted
    lastTr,         \* history: the last dispatched transaction and its events
    activated,      \* history: the text of the activated span when activated
    handled,        \* history: the last handleEditorAction since activation
    edits,          \* number of user edits so far
    release,        \* the installed editor libraries (see Releases)
    manager,        \* a mounted useAsyncRequest instance (see Manager)
    started,        \* history: what started each fetch of manager
    qa,             \* one OpenAIClient.getQA invocation (see IdleQA)
    questions,      \* questions.data
    suggestions,    \* useSuggestionsStore suggestions
    allQuestions,   \* allQuestions state of the editor component
    persisted,      \* history: the records posted by addSuggestion
    sync,           \* description store calls and the persisted Description
    draft,          \* shouldGenerateDraft and the draft requests
    session         \* settings flags and message histories (see NewSession)

vars == <<doc, cursor, data, loading, error, inflight, nextId, popoverTarget,
          popoverShown, user, description, subscribed, settled, lastInsert,
          lastTr, activated, handled, edits, release, manager, started, qa,
          questions, suggestions, allQuestions, persisted, sync, draft, session>>

\* the state of the request-manager instance, of the Generation Service
\* client and of the suggestion store
hookVars == <<manager, started>>
serverVars == <<qa>>
suggestionVars == <<suggestions, allQuestions, persisted>>

\* ------------------------------------------------------- document model
Paragraph(content, gen) == [type |-> "p", content |-> content, gen |-> gen]
Heading6(content) == [type |-> "h6", content |-> content, gen |-> FALSE]
EmptyDoc == <<Paragraph(<<>>, FALSE)>>

\* schema.text(t): a text node without marks
PlainContent(t) == [i \in 1..Len(t) |-> [c |-> t[i], b |-> FALSE]]

\* node.textContent
TextContent(block) == [i \in 1..Len(block.content) |-> block.content[i].c]

\* node.content.firstChild?.text: the first run of equally marked characters
\* (no text at all when the node has no child: see HasFirstChild)
FirstChildLen(content) ==
    IF content = <<>> THEN 0
    ELSE CHOOSE n \in 1..Len(content) :
            /\ \A i \in 1..n : content[i].b = content[1].b
            /\ (n < Len(content) => content[n + 1].b # content[1].b)

HasFirstChild(block) == block.content # <<>>

FirstChildText(block) ==
    IF block.content = <<>> THEN <<>>
    ELSE [i \in 1..FirstChildLen(block.content) |-> block.content[i].c]

NodeSize(block) == Len(block.content) + 2

RECURSIVE StartPos(_, _)
\* position right before block i of document d
StartPos(d, i) == IF i <= 1 THEN 0 ELSE StartPos(d, i - 1) + NodeSize(d[i - 1])

\* doc.nodeSize - 2: the size of the document's content
ContentSize(d) == StartPos(d, Len(d) + 1)

\* The editor libraries are not part of the sources; two releases of them
\* differ in where they put the block separator:
\*   "old"  doc.textBetween and editor.getText add it in front of a block
\*          when text was emitted since the last separator;
\*   "new"  doc.textBetween adds it in front of every text block it visits
\*          but the first, editor.getText in front of every block that
\*          starts after the range's start.
Releases == {"old", "new"}
BlockSeparator == <<"\n\n">>

\* node.text.slice(Math.max(from, pos) - pos, to - pos) over the text nodes
\* of block i: its characters that lie between from and to
SliceOf(d, i, from, to) ==
    LET s == StartPos(d, i)
        lo == IF from - s > 1 THEN from - s ELSE 1
        hi == IF to - s - 1 < Len(d[i].content) THEN to - s - 1 ELSE Len(d[i].content)
    IN SubSeq(TextContent(d[i]), lo, hi)

RECURSIVE NodesBetween(_, _, _, _, _, _)
\* doc.nodesBetween(from, to, f) from block i on, with the callback of
\* textBetween / getTextBetween; acc.flag is its `separated` or `first`
NodesBetween(rule, d, from, to, i, acc) ==
    IF i > Len(d) \/ StartPos(d, i) >= to THEN acc.text
    ELSE IF StartPos(d, i) + NodeSize(d[i]) <= from
    THEN NodesBetween(rule, d, from, to, i + 1, acc)
    ELSE LET slice == SliceOf(d, i, from, to)
             sep == IF rule = "afterFrom"
                    THEN (IF StartPos(d, i) > from THEN BlockSeparator ELSE <<>>)
                    ELSE (IF acc.flag THEN <<>> ELSE BlockSeparator)
             flag == IF rule = "separated" THEN slice = <<>> ELSE FALSE
         IN NodesBetween(rule, d, from, to, i + 1,
                [text |-> acc.text \o sep \o slice, flag |-> flag])

\* doc.textBetween(from, to, "\n\n")
TextBetween(rel, d, from, to) ==
    NodesBetween(IF rel = "old" THEN "separated" ELSE "first", d, from, to, 1,
                 [text |-> <<>>, flag |-> TRUE])

\* editor.getText()
GetText(rel, d) ==
    NodesBetween(IF rel = "old" THEN "separated" ELSE "afterFrom", d, 0,
                 ContentSize(d), 1, [text |-> <<>>, flag |-> TRUE])

\* the text of the editor as the component reads it
PlainText(d) == GetText(release, d)

\* the ProseMirror position of a cursor
PosOf(d, cur) == StartPos(d, cur.blk) + 1 + cur.off

Cursors(d) == {[blk |-> i, off |-> o] : i \in 1..Len(d), o \in 0..MaxLen}
ValidCursors(d) == {cur \in Cursors(d) : cur.off <= Len(d[cur.blk].content)}

RemoveAt(s, i) == [j \in 1..(Len(s) - 1) |-> IF j < i THEN s[j] ELSE s[j + 1]]
ReplaceAt(s, i, x) == [s EXCEPT ![i] = x]

\* ------------------------------------------------------------ event logger
KeyPress(key) == [event_type |-> "key_press", key |-> key, text |-> <<>>]
PasteAction(text) == [event_type |-> "paste_action", key |-> "", text |-> text]

\* a step of a transaction: the replaced range, the size of the inserted
\* slice (-1: the step has no slice) and the text of the slice's first node
Step(from, to, size, text) == [from |-> from, to |-> to, size |-> size, text |-> text]
Transaction(steps, paste) == [docChanged |-> steps # <<>>, paste |-> paste, steps |-> steps]

\* mutant: every step is logged as input
ClassifyStep_AllInput(step) == <<KeyPress("Input")>>

\* the key-press classification of one step
ClassifyStep(step) ==
    IF step.from = step.to THEN <<KeyPress("Input")>>
    ELSE IF step.size = 0 THEN <<KeyPress("Backspace or Delete")>>
    ELSE IF step.size > 0 THEN <<KeyPress("Input")>>
    ELSE <<>>

RECURSIVE ClassifySteps(_)
ClassifySteps(steps) ==
    IF steps = <<>> THEN <<>>
    ELSE ClassifyStep(Head(steps)) \o ClassifySteps(Tail(steps))

\* the handler given to theEditor.on("update", ...)
UpdateHandler(tr) ==
    IF ~tr.docChanged THEN <<>>
    ELSE IF tr.paste
         THEN LET lastStep == tr.steps[Len(tr.steps)]
              IN IF lastStep.size > 0 /\ lastStep.text # <<>>
                 THEN <<PasteAction(lastStep.text)>>
                 ELSE <<>>
         ELSE ClassifySteps(tr.steps)

RECURSIVE Emit(_, _)
\* the events one dispatched transaction makes the logger emit: every
\* subscribed handler is called with it
Emit(tr, handlers) ==
    IF handlers = 0 THEN <<>> ELSE UpdateHandler(tr) \o Emit(tr, handlers - 1)

\* mutant: the handler is attached without detaching the earlier ones
UseEventLogger_NoDetach(u, d, handlers) ==
    IF ~u \/ d = 0 THEN handlers ELSE handlers + 1

\* useEventLogger, run at every render: without context it returns early,
\* with context it detaches the "update" handlers and attaches one
UseEventLogger(u, d, handlers) == IF ~u \/ d = 0 THEN handlers ELSE 1

\* history: a dispatched transaction, the handlers subscribed then and the
\* events they emitted
Logged(origin, tr) ==
    [origin |-> origin, tr |-> tr, handlers |-> subscribed,
     events |-> Emit(tr, subscribed)]
NoTransaction ==
    [origin |-> "none", tr |-> Transaction(<<>>, FALSE), handlers |-> 0,
     events |-> <<>>]

NotInserted == [at |-> 0, reqPos |-> 0, id |-> 0, sameDoc |-> FALSE]

NotHandled == [action |-> "none", text |-> <<>>, activated |-> <<>>,
               matched |-> FALSE, again |-> FALSE]

\* ---------------------------------------------------------- popover target
NoTarget == [kind |-> "none", idx |-> 0, text |-> <<>>]
Element(i) == [kind |-> "el", idx |-> i, text |-> <<>>]
Detached(t) == [kind |-> "detached", idx |-> 0, text |-> t]

\* mutant: the text is captured once, when the span is activated
InnerText_AtActivation(t, d) == activated

\* target.innerText, read from the live DOM element
InnerText(t, d) == IF t.kind = "el" THEN TextContent(d[t.idx]) ELSE t.text

\* the element of block i after `added` blocks were put in after block at
ShiftTarget(t, at, added) ==
    IF t.kind = "el" /\ t.idx > at THEN Element(t.idx + added) ELSE t

\* the element after block m was replaced (removed = FALSE) or deleted
DropTarget(t, d, m, removed) ==
    IF t.kind # "el" THEN t
    ELSE IF t.idx = m THEN Detached(TextContent(d[m]))
    ELSE IF removed /\ t.idx > m THEN Element(t.idx - 1)
    ELSE t

\* ------------------------------------------------- description store
\* nothing written to the Description record yet
NotStored == <<>>

\* an initialize call in flight, with the current_html it was given: it
\* awaits the lookup by figure id ("get") or the create request ("post")
InitializeCall(phase, d) == [phase |-> phase, doc |-> d]

\* calls: the initialize calls in flight; inits: the initialize calls so
\* far; creates: the create requests so far; records: the Description
\* records of the figure at the persistence service; stored: the
\* current_html last written to the record; updates: the updateDescription
\* calls in flight, each with the current_html it posted; current: the
\* current_html of the description the store holds; answers: whether the
\* persistence service answers an update before the next event ("atonce")
\* or some time later ("later"); clears: the Clear clicks so far.
\* After mount with a user and no description record: the sync effect has
\* called initialize once
MountedSync(d) ==
    [calls |-> <<InitializeCall("get", d)>>, inits |-> 1, creates |-> 0,
     records |-> 0, stored |-> NotStored, updates |-> <<>>,
     current |-> NotStored, answers |-> "atonce", clears |-> 0]

\* with the record of an earlier render holding the document
InitializedSync(d) ==
    [calls |-> <<>>, inits |-> 0, creates |-> 0, records |-> 1, stored |-> d,
     updates |-> <<>>, current |-> d, answers |-> "atonce", clears |-> 0]

\* useState(false) of shouldGenerateDraft, no generateDraft() running;
\* clicks, requests and saved count the Generate clicks, the requests to
\* /api/draft and the generated descriptions stored, failed says that the
\* last generateDraft() rejected
IdleDraft ==
    [shouldGenerateDraft |-> FALSE, pending |-> FALSE, failed |-> FALSE,
     clicks |-> 0, requests |-> 0, saved |-> 0]

\* the effect on [shouldGenerateDraft] runs when the value has changed
DraftEffectRuns(before, now) == before # now

\* the effect on [shouldGenerateDraft] after a render: generateDraft()
\* starts when the flag is set; it returns at once without a user and posts
\* to /api/draft otherwise
DraftEffect(before, d) ==
    IF DraftEffectRuns(before, d.shouldGenerateDraft) /\ d.shouldGenerateDraft
    THEN draft' = [d EXCEPT !.pending = TRUE, !.failed = FALSE,
                            !.requests = IF user' THEN @ + 1 ELSE @]
    ELSE draft' = d

\* the description sync effect on [text, html, user, ...] after a render,
\* s being the store as the handler left it: initialize without a
\* description record, updateDescription with one
SyncEffect(s) ==
    IF user' /\ doc' # doc
    THEN IF description' = 0
         THEN /\ s.inits < MaxInits
              /\ sync' = [s EXCEPT !.calls = Append(@, InitializeCall("get", doc')),
                                   !.inits = @ + 1]
         ELSE IF s.answers = "atonce"
              THEN sync' = [s EXCEPT !.stored = doc', !.current = doc']
              ELSE sync' = [s EXCEPT !.stored = doc',
                                     !.updates = Append(@, doc')]
    ELSE sync' = s

\* the settings the provider starts with (every field enabled) and, for two
\* runs of the editor over figures that differ in ocr_text only, the
\* message states (useState([]) of messages and completionMessages), the
\* answers awaited, and as history the request bodies sent and the message
\* lists the handlers passed on to the Generation Service
NewRun ==
    [completionMessages |-> <<>>, messages |-> <<>>, awaiting |-> <<>>,
     requests |-> <<>>, upstream |-> <<>>]
NotCalled == [called |-> FALSE]
NewSession ==
    [shouldUseFigureText |-> TRUE, shouldUseFigureCaption |-> TRUE,
     runs |-> <<NewRun, NewRun>>,
     figure_type |-> "Line plot", guidelines |-> NotCalled]

\* ------------------------------------------------------------------- Init
\* no request manager mounted, no getQA invocation, no Q&A data
Unmounted == [mounted |-> FALSE]
IdleQA == [pc |-> "idle"]
InitOthers ==
    /\ manager = Unmounted
    /\ started = <<>>
    /\ qa = IdleQA
    /\ questions = <<>>
    /\ suggestions = <<>>
    /\ allQuestions = <<>>
    /\ persisted = <<>>
    /\ draft = IdleDraft
    /\ session = NewSession

\* the editor right after mount, with a signed-in user
Init ==
    /\ doc = EmptyDoc
    /\ cursor = [blk |-> 1, off |-> 0]
    /\ data = NoData
    /\ loading = FALSE
    /\ error = NULL
    /\ inflight = {}
    /\ nextId = 1
    /\ popoverTarget = NoTarget
    /\ popoverShown = FALSE
    /\ user = TRUE
    /\ description = 0
    /\ subscribed = 0
    /\ settled = <<>>
    /\ lastInsert = NotInserted
    /\ lastTr = NoTransaction
    /\ activated = <<>>
    /\ handled = NotHandled
    /\ edits = 0
    /\ release \in Releases
    /\ sync = MountedSync(doc)
    /\ InitOthers

\* the blocks of a document in which completions were inserted: authored
\* paragraphs and provisional spans
InitBlocks ==
    {Paragraph(PlainContent(<<c>>), FALSE) : c \in {"b"}}
        \cup {Heading6(PlainContent(t)) : t \in Responses}

RECURSIVE DocsOfLen(_)
DocsOfLen(n) ==
    IF n = 0 THEN {<<>>}
    ELSE {Append(d, b) : d \in DocsOfLen(n - 1), b \in InitBlocks}

\* the editor with the description initialized, no request in flight and
\* the last completion inserted: some document of 1..MaxBlocks blocks (no
\* action of the accept/reject flow reads block-separated text: one release
\* stands for both)
InitResolve ==
    /\ doc \in UNION {DocsOfLen(n) : n \in 1..MaxBlocks}
    /\ \E i \in 1..Len(doc) : doc[i].type = "h6"
    /\ cursor = [blk |-> 1, off |-> 0]
    /\ \E i \in 1..Len(doc) : doc[i].type = "h6" /\ data = Some(TextContent(doc[i]))
    /\ loading = FALSE
    /\ error = NULL
    /\ inflight = {}
    /\ nextId = 1
    /\ popoverTarget = NoTarget
    /\ popoverShown = FALSE
    /\ user = TRUE
    /\ description = 1
    /\ subscribed = 1
    /\ settled = <<>>
    /\ lastInsert = NotInserted
    /\ lastTr = NoTransaction
    /\ activated = <<>>
    /\ handled = NotHandled
    /\ edits = 0
    /\ release = "old"
    /\ sync = InitializedSync(doc)
    /\ InitOthers

\* the blocks of a document the user writes in: empty and authored
\* paragraphs and provisional spans
RequestBlocks ==
    {Paragraph(<<>>, FALSE), Paragraph(PlainContent(<<"b">>), FALSE),
     Heading6(PlainContent(<<"a">>))}

RECURSIVE DocsOver(_, _)
DocsOver(blocks, n) ==
    IF n = 0 THEN {<<>>}
    ELSE {Append(d, b) : d \in DocsOver(blocks, n - 1), b \in blocks}

\* the editor with the description initialized and no request in flight, on
\* some document of 1..MaxBlocks blocks, with either release installed
InitRequest ==
    /\ doc \in UNION {DocsOver(RequestBlocks, n) : n \in 1..MaxBlocks}
    /\ cursor = [blk |-> 1, off |-> 0]
    /\ data = NoData
    /\ loading = FALSE
    /\ error = NULL
    /\ inflight = {}
    /\ nextId = 1
    /\ popoverTarget = NoTarget
    /\ popoverShown = FALSE
    /\ user = TRUE
    /\ description = 1
    /\ subscribed = 1
    /\ settled = <<>>
    /\ lastInsert = NotInserted
    /\ lastTr = NoTransaction
    /\ activated = <<>>
    /\ handled = NotHandled
    /\ edits = 0
    /\ release \in Releases
    /\ sync = InitializedSync(doc)
    /\ InitOthers

\* ------------------------------------------------------ Q&A suggestions
\* a question/answer pair, by the two fields the presentation compares
Pair(q, a) == [question |-> q, suggested_answer1 |-> a]

\* feedback.result: the pairs one Q&A request answers with
QAResults ==
    {<<>>, <<Pair("q1", "a1")>>, <<Pair("q1", "a1"), Pair("q2", "a1")>>,
     <<Pair("q1", "a2"), Pair("q1", "a1")>>}

\* a Suggestions record as the persistence service returns it
Suggestion(content, type, descriptionId, date) ==
    [content |-> content, suggestion_type |-> type,
     description_id |-> descriptionId, user_id |-> 1, date_suggested |-> date]

\* what getSuggestionsByDescriptionId may answer with: records of earlier
\* sessions, in any order
StoredLists ==
    LET old == Suggestion(Pair("q1", "a1"), "qa", 1, 1)
        new == Suggestion(Pair("q1", "a1"), "qa", 1, 2)
        other == Suggestion(Pair("q2", "a1"), "qa", 1, 2)
        completion == Suggestion(Pair("q1", "a1"), "completion", 1, 2)
    IN {<<>>, <<old>>, <<old, new>>, <<completion, other>>,
        <<old, other, new>>, <<other, old, completion>>}

\* the date the persistence service gives the next record
NextDate(store) ==
    1 + (IF store = <<>> THEN 0
         ELSE CHOOSE d \in {store[i].date_suggested : i \in 1..Len(store)} :
                \A i \in 1..Len(store) : store[i].date_suggested <= d)

\* the effect on [questions.data]: every pair is added, if a user and a
\* description are there
AddsOfList(dataChanged) ==
    IF dataChanged /\ user' /\ description' # 0 THEN questions' ELSE <<>>

\* the effect on [questions.data, text, descriptionData, user, ...]: the
\* first pair is added
AddsOfFirst(dataChanged) ==
    IF /\ Len(questions') > 0
       /\ user' /\ description' # 0
       /\ \/ dataChanged
          \/ description' # description
          \/ user' # user
          \/ GetText(release, doc') # GetText(release, doc)
    THEN <<questions'[1]>> ELSE <<>>

RECURSIVE SortedByDate(_)
\* suggestionsData.sort(newest first): the comparator never answers 0, so
\* the order of records of the same date is left to the engine
SortedByDate(list) ==
    IF list = <<>> THEN {<<>>}
    ELSE LET n == Len(list)
             newest == {i \in 1..n : \A j \in 1..n :
                           list[j].date_suggested <= list[i].date_suggested}
         IN UNION {{<<list[i]>> \o rest : rest \in
                        SortedByDate(SubSeq(list, 1, i - 1) \o SubSeq(list, i + 1, n))}
                   : i \in newest}

RECURSIVE AllQuestionsOf(_)
\* .filter(suggestion_type === "qa").map(JSON.parse(content)); date is
\* history: the date of the record the pair comes from
AllQuestionsOf(list) ==
    IF list = <<>> THEN <<>>
    ELSE (IF Head(list).suggestion_type = "qa"
          THEN <<[question |-> Head(list).content.question,
                  suggested_answer1 |-> Head(list).content.suggested_answer1,
                  date |-> Head(list).date_suggested]>>
          ELSE <<>>) \o AllQuestionsOf(Tail(list))

\* allQuestions.findIndex(q => q.question === question &&
\*                             q.suggested_answer1 === suggested_answer1)
FindIndex(all, entry) ==
    CHOOSE i \in 1..Len(all) :
        /\ all[i].question = entry.question
        /\ all[i].suggested_answer1 = entry.suggested_answer1
        /\ \A j \in 1..(i - 1) :
              ~(all[j].question = entry.question
                /\ all[j].suggested_answer1 = entry.suggested_answer1)

RECURSIVE FilterFrom(_, _)
FilterFrom(all, i) ==
    IF i > Len(all) THEN <<>>
    ELSE (IF FindIndex(all, all[i]) = i THEN <<all[i]>> ELSE <<>>)
            \o FilterFrom(all, i + 1)

\* mutant: every entry is rendered
TimeOrderedQuestions_All(all) == all

\* timeOrderedQuestions of QASuggestionsChat: the rendered entries
TimeOrderedQuestions(all) == FilterFrom(all, 1)

\* The effects that follow a render: the two that add suggestions
\* (addSuggestion posts the record and appends the answer to the store) and
\* the one that derives allQuestions from the store.  store is the store as
\* the handler left it, storeChanged whether the handler replaced it.
SuggestionEffectsOf(toAdd, store, storeChanged) ==
    \E adds \in {toAdd} :
    \E added \in {[i \in 1..Len(adds) |->
                    Suggestion(adds[i], "qa", description', NextDate(store) + i - 1)]} :
       /\ Len(persisted) + Len(adds) <= MaxSuggestions
       /\ persisted' = persisted \o added
       /\ IF (storeChanged \/ adds # <<>>) /\ Len(store \o added) > 0
          THEN \E sorted \in SortedByDate(store \o added) :
                  /\ suggestions' = sorted
                  /\ allQuestions' = AllQuestionsOf(sorted)
          ELSE /\ suggestions' = store \o added
               /\ UNCHANGED allQuestions

SuggestionEffects(dataChanged, store, storeChanged) ==
    SuggestionEffectsOf(AddsOfList(dataChanged) \o AddsOfFirst(dataChanged),
                        store, storeChanged)

Render ==
    /\ subscribed' = UseEventLogger(user', description', subscribed)
    /\ SuggestionEffects(FALSE, suggestions, FALSE)
    /\ DraftEffect(draft.shouldGenerateDraft, draft)
    /\ UNCHANGED session
    /\ SyncEffect(sync)

\* ----------------------------------------------------------- user editing
\* the marks a typed character takes: those of the character before the
\* cursor, at the start of a block those of the character after it
MarksAt(content, off) ==
    IF content = <<>> THEN FALSE
    ELSE IF off > 0 THEN content[off].b ELSE content[1].b

InsertChar(content, off, ch) ==
    [i \in 1..(Len(content) + 1) |->
        IF i <= off THEN content[i]
        ELSE IF i = off + 1 THEN ch
        ELSE content[i - 1]]

\* the user types one character at the cursor
TypeChar(c) ==
    /\ edits < MaxEdits
    /\ LET block == doc[cursor.blk]
           ch == [c |-> c, b |-> MarksAt(block.content, cursor.off)]
           pos == PosOf(doc, cursor)
       IN /\ doc' = ReplaceAt(doc, cursor.blk,
                        [block EXCEPT !.content = InsertChar(@, cursor.off, ch)])
          /\ lastTr' = Logged("typing", Transaction(<<Step(pos, pos, 1, <<c>>)>>, FALSE))
    /\ cursor' = [cursor EXCEPT !.off = @ + 1]
    /\ edits' = edits + 1
    /\ UNCHANGED <<data, loading, error, inflight, nextId, popoverTarget,
                   popoverShown, user, description, settled, lastInsert, activated, handled>>
    /\ UNCHANGED <<release, hookVars, serverVars, questions>>
    /\ Render

\* the user selects characters lo..hi of block i and toggles the bold mark
ToggleBold(i, lo, hi) ==
    /\ edits < MaxEdits
    /\ i \in 1..Len(doc)
    /\ 1 <= lo /\ lo <= hi /\ hi <= Len(doc[i].content)
    /\ LET block == doc[i]
           allBold == \A k \in lo..hi : block.content[k].b
           marked == [k \in 1..Len(block.content) |->
                        IF k >= lo /\ k <= hi
                        THEN [block.content[k] EXCEPT !.b = ~allBold]
                        ELSE block.content[k]]
           from == StartPos(doc, i) + lo
           to == StartPos(doc, i) + 1 + hi
       IN /\ doc' = ReplaceAt(doc, i, [block EXCEPT !.content = marked])
          /\ lastTr' = Logged("mark", Transaction(<<Step(from, to, -1, <<>>)>>, FALSE))
    /\ cursor' = [blk |-> i, off |-> hi]
    /\ edits' = edits + 1
    /\ UNCHANGED <<data, loading, error, inflight, nextId, popoverTarget,
                   popoverShown, user, description, settled, lastInsert, activated, handled>>
    /\ UNCHANGED <<release, hookVars, serverVars, questions>>
    /\ Render

\* the user presses Backspace behind a character
DeleteChar ==
    /\ edits < MaxEdits
    /\ cursor.off > 0
    /\ LET block == doc[cursor.blk]
           pos == PosOf(doc, cursor)
       IN /\ doc' = ReplaceAt(doc, cursor.blk,
                        [block EXCEPT !.content = RemoveAt(@, cursor.off)])
          /\ lastTr' = Logged("backspace",
                            Transaction(<<Step(pos - 1, pos, 0, <<>>)>>, FALSE))
    /\ cursor' = [cursor EXCEPT !.off = @ - 1]
    /\ edits' = edits + 1
    /\ UNCHANGED <<data, loading, error, inflight, nextId, popoverTarget,
                   popoverShown, user, description, settled, lastInsert, activated, handled>>
    /\ UNCHANGED <<release, hookVars, serverVars, questions>>
    /\ Render

\* the user selects the character before the cursor and types c over it
TypeOver(c) ==
    /\ edits < MaxEdits
    /\ cursor.off > 0
    /\ LET block == doc[cursor.blk]
           ch == [c |-> c, b |-> block.content[cursor.off].b]
           pos == PosOf(doc, cursor)
       IN /\ doc' = ReplaceAt(doc, cursor.blk,
                        [block EXCEPT !.content = ReplaceAt(@, cursor.off, ch)])
          /\ lastTr' = Logged("typing",
                            Transaction(<<Step(pos - 1, pos, 1, <<c>>)>>, FALSE))
    /\ edits' = edits + 1
    /\ UNCHANGED <<cursor, data, loading, error, inflight, nextId, popoverTarget,
                   popoverShown, user, description, settled, lastInsert, activated, handled>>
    /\ UNCHANGED <<release, hookVars, serverVars, questions>>
    /\ Render

\* what the clipboard holds: a slice of paragraphs, given by their texts
\* (nothing; one paragraph; two paragraphs of which any may be empty)
PasteSlices ==
    {<<>>, <<<<"b">>>>} \cup
    {<<t1, t2>> : t1 \in {<<>>, <<"b">>}, t2 \in {<<>>, <<"b">>}}

RECURSIVE SliceSize(_)
\* slice.content.size
SliceSize(slice) ==
    IF slice = <<>> THEN 0 ELSE Len(Head(slice)) + 2 + SliceSize(Tail(slice))

\* the user pastes the slice at the cursor: the view dispatches one
\* transaction with the meta "paste"; the first paragraph of the slice
\* continues the block of the cursor, the last one takes the rest of it
Paste(slice) ==
    /\ edits < MaxEdits
    /\ LET i == cursor.blk
           block == doc[i]
           pos == PosOf(doc, cursor)
           left == SubSeq(block.content, 1, cursor.off)
           right == SubSeq(block.content, cursor.off + 1, Len(block.content))
           step == Step(pos, pos, SliceSize(slice), Head(slice))
       IN IF slice = <<>>
          THEN /\ lastTr' = Logged("paste", Transaction(<<>>, TRUE))
               /\ UNCHANGED <<doc, cursor, popoverTarget>>
          ELSE IF Len(slice) = 1
          THEN /\ doc' = ReplaceAt(doc, i, [block EXCEPT !.content =
                                left \o PlainContent(slice[1]) \o right])
               /\ cursor' = [cursor EXCEPT !.off = @ + Len(slice[1])]
               /\ lastTr' = Logged("paste", Transaction(<<step>>, TRUE))
               /\ UNCHANGED popoverTarget
          ELSE /\ doc' = SubSeq(doc, 1, i - 1)
                        \o <<[block EXCEPT !.content = left \o PlainContent(slice[1])],
                             Paragraph(PlainContent(slice[2]) \o right, FALSE)>>
                        \o SubSeq(doc, i + 1, Len(doc))
               /\ cursor' = [blk |-> i + 1, off |-> Len(slice[2])]
               /\ popoverTarget' = ShiftTarget(popoverTarget, i, 1)
               /\ lastTr' = Logged("paste", Transaction(<<step>>, TRUE))
    /\ edits' = edits + 1
    /\ UNCHANGED <<data, loading, error, inflight, nextId, popoverShown, user,
                   description, settled, lastInsert, activated, handled>>
    /\ UNCHANGED <<release, hookVars, serverVars, questions>>
    /\ Render

\* the user puts the cursor somewhere else
MoveCursor(cur) ==
    /\ cur \in ValidCursors(doc)
    /\ cur # cursor
    /\ cursor' = cur
    /\ lastTr' = NoTransaction
    /\ UNCHANGED <<doc, data, loading, error, inflight, nextId, popoverTarget,
                   popoverShown, user, description, settled, lastInsert, edits, activated, handled>>
    /\ UNCHANGED <<release, hookVars, serverVars, questions>>
    /\ Render

\* ------------------------------------------- completion request manager
\* textBeforeCursor and textAfterCursor of completion.apiCall
TextBeforeCursor(d, cursorPosition) ==
    IF cursorPosition # 0 THEN TextBetween(release, d, 0, cursorPosition) ELSE <<>>

TextAfterCursor(d, cursorPosition) ==
    IF cursorPosition # 0
    THEN TextBetween(release, d, cursorPosition, ContentSize(d))
    ELSE <<>>

\* mutant: the endpoint is chosen by the text before the cursor alone
Endpoint_BeforeOnly(textBeforeCursor, textAfterCursor) ==
    IF Len(textBeforeCursor) > 0 THEN "/api/completion" ELSE "/api/summary"

\* description.length ? "/api/completion" : "/api/summary"
Endpoint(textBeforeCursor, textAfterCursor) ==
    IF Len(textBeforeCursor \o textAfterCursor) > 0
    THEN "/api/completion" ELSE "/api/summary"

\* completion.fetchData() up to the await of fetch: the request is built
\* from the cursor position of this moment (doc and conc are history: the
\* document at that moment and the calls then in flight)
FetchData ==
    /\ nextId <= MaxCalls
    /\ loading' = TRUE
    /\ error' = NULL
    /\ inflight' = inflight \cup
            {[id |-> nextId, pos |-> PosOf(doc, cursor), doc |-> doc,
              conc |-> {c.id : c \in inflight},
              textBefore |-> TextBeforeCursor(doc, PosOf(doc, cursor)),
              textAfter |-> TextAfterCursor(doc, PosOf(doc, cursor)),
              endpoint |-> Endpoint(TextBeforeCursor(doc, PosOf(doc, cursor)),
                                    TextAfterCursor(doc, PosOf(doc, cursor)))]}
    /\ nextId' = nextId + 1
    /\ lastTr' = NoTransaction
    /\ UNCHANGED <<doc, cursor, data, popoverTarget, popoverShown, user,
                   description, settled, lastInsert, edits, activated, handled>>
    /\ UNCHANGED <<release, hookVars, serverVars, questions>>
    /\ Render

\* editor.chain().focus().insertContentAt(pos, "<h6>text</h6>").run():
\* the document, the cursor and the step of the transaction.  In an empty
\* text block the heading replaces the block; elsewhere the block is split
\* at the cursor (nothing is left to split off at the end of a block).
InsertContentAt(d, cur, text) ==
    LET i == cur.blk
        block == d[i]
        len == Len(block.content)
        pos == PosOf(d, cur)
        h6 == Heading6(PlainContent(text))
        size == Len(text) + 2
        before == SubSeq(d, 1, i - 1)
        after == SubSeq(d, i + 1, Len(d))
        left == [block EXCEPT !.content = SubSeq(@, 1, cur.off)]
        right == [block EXCEPT !.content = SubSeq(@, cur.off + 1, len)]
    IN IF len = 0
       THEN [doc |-> before \o <<h6>> \o after,
             cursor |-> [blk |-> i, off |-> Len(text)],
             at |-> i, added |-> 0,
             step |-> Step(pos - 1, pos + 1, size, text)]
       ELSE IF cur.off = len
       THEN [doc |-> before \o <<block, h6>> \o after,
             cursor |-> [blk |-> i + 1, off |-> Len(text)],
             at |-> i, added |-> 1,
             step |-> Step(pos, pos, size, text)]
       ELSE [doc |-> before \o <<left, h6, right>> \o after,
             cursor |-> [blk |-> i + 2, off |-> 0],
             at |-> i, added |-> 2,
             step |-> Step(pos, pos, size, text)]

\* what apiCall may throw: a TypeError of fetch, a SyntaxError of
\* response.json()
ResponseErrors == {"TypeError", "SyntaxError"}

\* mutant: the error tells the cause
CaughtError_OfCause(responseError) == responseError

\* catch (responseError): the value setError is given
CaughtError(responseError) == ErrorMessage

\* mutant: loading stays set while other calls are in flight
LoadingAfterSettle_WhilePending(pending) == pending # {}

\* finally: the value setLoading is given, whatever calls are still pending
LoadingAfterSettle(pending) == FALSE

\* mutant: the response of a superseded call is dropped
ResolvedData_LatestOnly(c, response) ==
    IF c.id = nextId - 1 THEN Some(response) ELSE data

\* the value setData(response) leaves in data when call c resolves
ResolvedData(c, response) == Some(response)

\* a response arrives: the rest of fetchData, then the effect on
\* [completion.data] that inserts the text at the cursor
Resolve(c, response) ==
    /\ c \in inflight
    /\ inflight' = inflight \ {c}
    /\ data' = ResolvedData(c, response)
    /\ loading' = LoadingAfterSettle(inflight')
    /\ settled' = Append(settled, [id |-> c.id, ok |-> TRUE, cause |-> NULL,
                                   response |-> response, conc |-> c.conc])
    /\ IF data' # data /\ data'.some /\ Len(data'.text) > 0
       THEN LET ins == InsertContentAt(doc, cursor, data'.text)
            IN /\ doc' = ins.doc
               /\ cursor' = ins.cursor
               /\ popoverTarget' = ShiftTarget(popoverTarget, ins.at, ins.added)
               /\ lastInsert' = [at |-> PosOf(doc, cursor), reqPos |-> c.pos,
                                 id |-> c.id, sameDoc |-> doc = c.doc]
               /\ lastTr' = Logged("completion", Transaction(<<ins.step>>, FALSE))
       ELSE /\ lastTr' = NoTransaction
            /\ UNCHANGED <<doc, cursor, popoverTarget, lastInsert>>
    /\ UNCHANGED <<error, nextId, popoverShown, user, description, edits, activated, handled>>
    /\ UNCHANGED <<release, hookVars, serverVars, questions>>
    /\ Render

\* apiCall throws responseError (fetch rejects, or response.json() does):
\* the catch and finally branches of fetchData
FetchFailed(c, responseError) ==
    /\ c \in inflight
    /\ inflight' = inflight \ {c}
    /\ error' = CaughtError(responseError)
    /\ loading' = LoadingAfterSettle(inflight')
    /\ settled' = Append(settled, [id |-> c.id, ok |-> FALSE,
                                   cause |-> responseError,
                                   response |-> <<>>, conc |-> c.conc])
    /\ lastTr' = NoTransaction
    /\ UNCHANGED <<doc, cursor, data, nextId, popoverTarget, popoverShown,
                   user, description, lastInsert, edits, activated, handled>>
    /\ UNCHANGED <<release, hookVars, serverVars, questions>>
    /\ Render

\* the body of a response that is not OK: a handler of the Generation
\* Service that throws is answered for by the framework, in plain text
NotOkBodies == {"Internal Server Error"}

\* mutant: every body parses
JsonTexts_Any == {"{}", "Internal Server Error"}

\* the bodies response.json() parses (the others make it throw)
JsonTexts == {"{}"}

\* a response that is not OK arrives for call c: apiCall does not look at
\* response.ok; response.json() throws on a body that is no JSON, and a
\* JSON body without result makes apiCall return undefined
ResponseNotOk(c, body) ==
    IF body \in JsonTexts
    THEN /\ c \in inflight
         /\ inflight' = inflight \ {c}
         /\ data' = NoData
         /\ loading' = LoadingAfterSettle(inflight')
         /\ settled' = Append(settled, [id |-> c.id, ok |-> TRUE, cause |-> NULL,
                                        response |-> <<>>, conc |-> c.conc])
         /\ lastTr' = NoTransaction
         /\ UNCHANGED <<doc, cursor, error, nextId, popoverTarget, popoverShown,
                        user, description, lastInsert, edits, activated, handled>>
         /\ UNCHANGED <<release, hookVars, serverVars, questions>>
         /\ Render
    ELSE FetchFailed(c, "SyntaxError")

\* ------------------------------------------------------ accept / reject
\* the user clicks on character k of block i (k = 0: an empty block).  The
\* event's target is the block's element, or the <strong> element inside it
\* when the character is bold; acceptSuggestion ignores all but <h6>.
Click(i, k) ==
    /\ i \in 1..Len(doc)
    /\ IF doc[i].content = <<>> THEN k = 0 ELSE k \in 1..Len(doc[i].content)
    /\ LET tagName == IF k > 0 /\ doc[i].content[k].b THEN "STRONG"
                      ELSE IF doc[i].type = "h6" THEN "H6" ELSE "P"
       IN IF tagName # "H6"
          THEN UNCHANGED <<popoverTarget, popoverShown, activated, handled>>
          ELSE /\ popoverTarget' = Element(i)
               /\ popoverShown' = TRUE
               /\ activated' = TextContent(doc[i])
               /\ handled' = NotHandled
    /\ cursor' = [blk |-> i, off |-> k]
    /\ lastTr' = NoTransaction
    /\ UNCHANGED <<doc, data, loading, error, inflight, nextId, user,
                   description, settled, lastInsert, edits>>
    /\ UNCHANGED <<release, hookVars, serverVars, questions>>
    /\ Render

\* SuggestionPopover onClose
ClosePopover ==
    /\ popoverShown
    /\ popoverShown' = FALSE
    /\ lastTr' = NoTransaction
    /\ UNCHANGED <<doc, cursor, data, loading, error, inflight, nextId,
                   popoverTarget, user, description, settled, lastInsert, edits, activated, handled>>
    /\ UNCHANGED <<release, hookVars, serverVars, questions>>
    /\ Render

\* mutant: the callback forgets to compare the text
NodeMatches_AnyHeading(node, localText) == node.type = "h6"

\* the test of the doc.descendants callback on one node
NodeMatches(node, localText) ==
    /\ node.type = "h6"
    /\ HasFirstChild(node)
    /\ FirstChildText(node) = localText

RECURSIVE Descendants(_, _, _, _)
\* doc.descendants over the blocks from i on: every matching node assigns
\* from and to; returning false keeps the traversal out of the node's
\* children and goes on with the next block
Descendants(d, localText, i, range) ==
    IF i > Len(d) THEN range
    ELSE Descendants(d, localText, i + 1,
            IF NodeMatches(d[i], localText)
            THEN [from |-> StartPos(d, i), to |-> StartPos(d, i) + NodeSize(d[i])]
            ELSE range)

MatchedRange(d, localText) == Descendants(d, localText, 1, [from |-> 0, to |-> 0])

\* the block that starts at position from
BlockAt(d, from) == CHOOSE i \in 1..Len(d) : StartPos(d, i) = from

\* tr.replaceRange(from, to, slice) of one top-level block by node p
ReplaceRange(d, m, p) == ReplaceAt(d, m, p)

\* mutant: the deleted range runs on to the end of the document
DeleteRange_TooFar(d, m) == IF m = 1 THEN EmptyDoc ELSE SubSeq(d, 1, m - 1)

\* tr.delete(from, to) of one top-level block; the schema (block+) leaves
\* an empty paragraph where the document would be empty
DeleteRange(d, m) == IF Len(d) = 1 THEN EmptyDoc ELSE RemoveAt(d, m)

\* the selection mapped through the replacement of block m by text of len
CursorAfterReplace(cur, m, len) ==
    IF cur.blk = m THEN [blk |-> m, off |-> len] ELSE cur

\* the selection mapped through the deletion of block m of document d
CursorAfterDelete(cur, d, m) ==
    IF Len(d) = 1 THEN [blk |-> 1, off |-> 0]
    ELSE IF cur.blk < m THEN cur
    ELSE IF cur.blk > m THEN [cur EXCEPT !.blk = @ - 1]
    ELSE IF m < Len(d) THEN [blk |-> m, off |-> 0]
    ELSE [blk |-> m - 1, off |-> Len(d[m - 1].content)]

\* mutant: the activated target is kept
ClearedTarget_Keep(t) == t

\* setPopoverTarget(null) at the end of handleEditorAction
ClearedTarget(t) == NoTarget

\* mutant: the pending completion result is kept
CloseAffordance_KeepData ==
    /\ popoverShown' = FALSE
    /\ UNCHANGED data

\* completion.setData(null) and setPopoverShown(false) at its end
CloseAffordance ==
    /\ data' = NoData
    /\ popoverShown' = FALSE

\* what handleEditorAction(action) did, with the lookup text and its result
Handled(action, localText, matched) ==
    [action |-> action, text |-> localText, activated |-> activated,
     matched |-> matched,
     again |-> handled.action = "confirm" /\ handled.matched]

\* handleEditorAction("confirm" | "delete")
HandleEditorAction(action) ==
    /\ action \in {"confirm", "delete"}
    /\ IF popoverTarget = NoTarget
       THEN /\ lastTr' = NoTransaction
            /\ handled' = Handled(action, <<>>, FALSE)
            /\ UNCHANGED <<doc, cursor, data, popoverTarget, popoverShown>>
       ELSE LET localText == InnerText(popoverTarget, doc)
                range == MatchedRange(doc, localText)
            IN /\ IF range.from # range.to
                  THEN LET m == BlockAt(doc, range.from)
                       IN IF action = "confirm"
                          THEN /\ doc' = ReplaceRange(doc, m,
                                            Paragraph(PlainContent(localText), TRUE))
                               /\ cursor' = CursorAfterReplace(cursor, m, Len(localText))
                               /\ popoverTarget' =
                                      ClearedTarget(DropTarget(popoverTarget, doc, m, FALSE))
                               /\ lastTr' = Logged("confirm", Transaction(
                                      <<Step(range.from, range.to, Len(localText) + 2,
                                             localText)>>, FALSE))
                          ELSE /\ doc' = DeleteRange(doc, m)
                               /\ cursor' = CursorAfterDelete(cursor, doc, m)
                               /\ popoverTarget' =
                                      ClearedTarget(DropTarget(popoverTarget, doc, m, TRUE))
                               /\ lastTr' = Logged("delete", Transaction(
                                      <<Step(range.from, range.to, 0, <<>>)>>, FALSE))
                  ELSE /\ popoverTarget' = ClearedTarget(popoverTarget)
                       /\ lastTr' = NoTransaction
                       /\ UNCHANGED <<doc, cursor>>
               /\ handled' = Handled(action, localText, range.from # range.to)
               /\ CloseAffordance
    /\ activated' = <<>>
    /\ UNCHANGED <<loading, error, inflight, nextId, user, description,
                   settled, lastInsert, edits>>
    /\ UNCHANGED <<release, hookVars, serverVars, questions>>
    /\ Render

\* ----------------------------------------------------- description store
\* the id of the Description record of the figure
DescriptionId == 1

\* the lookup of initialize call k answers: with a record the store takes
\* it, without one the call posts a create request
GetDescriptionAnswers(k) ==
    /\ k \in 1..Len(sync.calls)
    /\ sync.calls[k].phase = "get"
    /\ description' = IF sync.records > 0 THEN DescriptionId ELSE description
    /\ lastTr' = NoTransaction
    /\ UNCHANGED <<doc, cursor, data, loading, error, inflight, nextId,
                   popoverTarget, popoverShown, user, settled, lastInsert, edits, activated, handled>>
    /\ UNCHANGED <<release, hookVars, serverVars, questions>>
    /\ subscribed' = UseEventLogger(user', description', subscribed)
    /\ SuggestionEffects(FALSE, suggestions, FALSE)
    /\ DraftEffect(draft.shouldGenerateDraft, draft)
    /\ UNCHANGED session
    /\ SyncEffect(IF sync.records > 0
                  THEN [sync EXCEPT !.calls = RemoveAt(@, k),
                                    !.current = sync.stored]
                  ELSE [sync EXCEPT !.calls[k].phase = "post",
                                    !.creates = @ + 1])

\* the create request of initialize call k answers: the service has stored
\* the record (one record for a figure) and the store takes it
CreateDescriptionAnswers(k) ==
    /\ k \in 1..Len(sync.calls)
    /\ sync.calls[k].phase = "post"
    /\ description' = DescriptionId
    /\ lastTr' = NoTransaction
    /\ UNCHANGED <<doc, cursor, data, loading, error, inflight, nextId,
                   popoverTarget, popoverShown, user, settled, lastInsert, edits, activated, handled>>
    /\ UNCHANGED <<release, hookVars, serverVars, questions>>
    /\ subscribed' = UseEventLogger(user', description', subscribed)
    /\ SuggestionEffects(FALSE, suggestions, FALSE)
    /\ DraftEffect(draft.shouldGenerateDraft, draft)
    /\ UNCHANGED session
    /\ SyncEffect([sync EXCEPT !.calls = RemoveAt(@, k), !.records = 1,
                               !.stored = sync.calls[k].doc,
                               !.current = sync.calls[k].doc])

\* an initialize call runs to its end with no other answer in between:
\* the lookup finds no record, the create request is posted and answered
InitializeDescription ==
    /\ user
    /\ description = 0
    /\ description' = DescriptionId
    /\ lastTr' = NoTransaction
    /\ UNCHANGED <<doc, cursor, data, loading, error, inflight, nextId,
                   popoverTarget, popoverShown, user, settled, lastInsert, edits, activated, handled>>
    /\ UNCHANGED <<release, hookVars, serverVars, questions>>
    /\ subscribed' = UseEventLogger(user', description', subscribed)
    /\ SuggestionEffects(FALSE, suggestions, FALSE)
    /\ \E k \in 1..Len(sync.calls) :
          /\ sync.calls[k].phase = "get"
          /\ sync.records = 0
          /\ DraftEffect(draft.shouldGenerateDraft, draft)
          /\ UNCHANGED session
          /\ SyncEffect([sync EXCEPT !.calls = RemoveAt(@, k), !.creates = @ + 1,
                                     !.records = 1, !.stored = sync.calls[k].doc,
                                     !.current = sync.calls[k].doc])

\* ------------------------------------------------- Q&A request and store
\* the Q&A request answers: setData(feedback.result) of the questions
\* request manager, then the effects
QuestionsResolve(result) ==
    /\ questions' = result
    /\ lastTr' = NoTransaction
    /\ UNCHANGED <<doc, cursor, data, loading, error, inflight, nextId,
                   popoverTarget, popoverShown, user, description, settled,
                   lastInsert, activated, handled, edits>>
    /\ UNCHANGED <<release, hookVars, serverVars>>
    /\ subscribed' = UseEventLogger(user', description', subscribed)
    /\ SuggestionEffects(TRUE, suggestions, FALSE)
    /\ DraftEffect(draft.shouldGenerateDraft, draft)
    /\ UNCHANGED session
    /\ SyncEffect(sync)

\* useSuggestionsStore.initialize(descriptionData.id), started by the effect
\* on [user, descriptionData], when the persistence service answers
InitializeSuggestions(list) ==
    /\ user
    /\ description # 0
    /\ lastTr' = NoTransaction
    /\ UNCHANGED <<doc, cursor, data, loading, error, inflight, nextId,
                   popoverTarget, popoverShown, user, description, settled,
                   lastInsert, activated, handled, edits>>
    /\ UNCHANGED <<release, hookVars, serverVars, questions>>
    /\ subscribed' = UseEventLogger(user', description', subscribed)
    /\ SuggestionEffects(FALSE, IF Len(list) > 0 THEN list ELSE <<>>, TRUE)
    /\ DraftEffect(draft.shouldGenerateDraft, draft)
    /\ UNCHANGED session
    /\ SyncEffect(sync)

\* ------------------------------------------- request manager (generic)
\* JavaScript values a request manager holds: null, a string, an array
JsNull == [type |-> "null", len |-> 0]
JsString(n) == [type |-> "string", len |-> n]
JsArray(n) == [type |-> "array", len |-> n]

\* the defaultValue the components pass: null or []
DefaultValues == {JsNull, JsArray(0)}
\* what apiCall resolves with, what setData is given
DataValues == {JsNull, JsString(0), JsString(1), JsArray(0), JsArray(1)}

\* !data is ~ToBoolean(data): null and "" are falsy, every array is truthy
ToBoolean(v) ==
    CASE v.type = "null" -> FALSE
      [] v.type = "string" -> v.len > 0
      [] v.type = "array" -> TRUE

\* the state of the hook at its first render; dependencies counts the
\* changes of the dependencies array, pending the calls awaiting apiCall,
\* fetches the fetchData calls so far
UseAsyncRequest(defaultValue, autoFetch) ==
    [mounted |-> TRUE, defaultValue |-> defaultValue,
     shouldFetch |-> autoFetch, data |-> defaultValue, loading |-> FALSE,
     error |-> NULL, dependencies |-> 0, pending |-> 0, fetches |-> 0]

\* fetchData() up to the await of apiCall
StartFetch(m) ==
    [m EXCEPT !.loading = TRUE, !.error = NULL,
              !.pending = @ + 1, !.fetches = @ + 1]

\* the body of the effect
Effect(m) == IF m.shouldFetch /\ ~ToBoolean(m.data) THEN StartFetch(m) ELSE m

\* mutant: data is among the effect's dependencies
EffectRuns_OnData(prev, next) ==
    next.dependencies # prev.dependencies \/ next.data # prev.data

\* useEffect(..., dependencies): after a render the effect runs again when
\* an element of dependencies has changed
EffectRuns(prev, next) == next.dependencies # prev.dependencies

\* the entry of started for an effect run on state m
EffectRun(on, m) ==
    [on |-> on, shouldFetch |-> m.shouldFetch, data |-> m.data,
     fetched |-> Effect(m) # m]

\* a state change of the hook from manager to next, the render and the
\* effect after it
Rerender(next) ==
    /\ manager' = IF EffectRuns(manager, next) THEN Effect(next) ELSE next
    /\ manager'.fetches <= MaxFetches
    /\ started' = IF EffectRuns(manager, next)
                  THEN Append(started, EffectRun("dependencies", next))
                  ELSE started

\* a component mounts with a request manager: first render, then the effect
Mount(defaultValue, autoFetch) ==
    /\ ~manager.mounted
    /\ manager' = Effect(UseAsyncRequest(defaultValue, autoFetch))
    /\ started' = Append(started,
                    EffectRun("mount", UseAsyncRequest(defaultValue, autoFetch)))
    /\ UNCHANGED <<doc, cursor, data, loading, error, inflight, nextId,
                   popoverTarget, popoverShown, user, description, subscribed,
                   settled, lastInsert, lastTr, activated, handled, edits>>
    /\ UNCHANGED <<release, serverVars, questions, suggestionVars, sync, draft, session>>

\* an element of dependencies changes by reference: a new paperFile, or
\* the completionMessages the completion apiCall sets before it returns
ChangeDependency ==
    /\ manager.mounted
    /\ manager.dependencies < MaxDependencyChanges
    /\ Rerender([manager EXCEPT !.dependencies = @ + 1])
    /\ UNCHANGED <<doc, cursor, data, loading, error, inflight, nextId,
                   popoverTarget, popoverShown, user, description, subscribed,
                   settled, lastInsert, lastTr, activated, handled, edits>>
    /\ UNCHANGED <<release, serverVars, questions, suggestionVars, sync, draft, session>>

\* the component calls the fetchData the hook returned
CallFetchData ==
    /\ manager.mounted
    /\ manager.fetches < MaxFetches
    /\ manager' = StartFetch(manager)
    /\ UNCHANGED started
    /\ UNCHANGED <<doc, cursor, data, loading, error, inflight, nextId,
                   popoverTarget, popoverShown, user, description, subscribed,
                   settled, lastInsert, lastTr, activated, handled, edits>>
    /\ UNCHANGED <<release, serverVars, questions, suggestionVars, sync, draft, session>>

\* apiCall resolves: setData(response), setLoading(false)
ApiCallResolves(response) ==
    /\ manager.mounted
    /\ manager.pending > 0
    /\ Rerender([manager EXCEPT !.data = response,
                                !.loading = LoadingAfterSettle({}),
                                !.pending = @ - 1])
    /\ UNCHANGED <<doc, cursor, data, loading, error, inflight, nextId,
                   popoverTarget, popoverShown, user, description, subscribed,
                   settled, lastInsert, lastTr, activated, handled, edits>>
    /\ UNCHANGED <<release, serverVars, questions, suggestionVars, sync, draft, session>>

\* apiCall throws: setError, setLoading(false)
ApiCallThrows(responseError) ==
    /\ manager.mounted
    /\ manager.pending > 0
    /\ Rerender([manager EXCEPT !.error = CaughtError(responseError),
                                !.loading = LoadingAfterSettle({}),
                                !.pending = @ - 1])
    /\ UNCHANGED <<doc, cursor, data, loading, error, inflight, nextId,
                   popoverTarget, popoverShown, user, description, subscribed,
                   settled, lastInsert, lastTr, activated, handled, edits>>
    /\ UNCHANGED <<release, serverVars, questions, suggestionVars, sync, draft, session>>

\* a response that is not OK arrives for a call of the manager
ManagerResponseNotOk(body) ==
    IF body \in JsonTexts
    THEN /\ manager.mounted
         /\ manager.pending > 0
         /\ Rerender([manager EXCEPT !.data = JsNull,
                                     !.loading = LoadingAfterSettle({}),
                                     !.pending = @ - 1])
         /\ UNCHANGED <<doc, cursor, data, loading, error, inflight, nextId,
                        popoverTarget, popoverShown, user, description, subscribed,
                        settled, lastInsert, lastTr, activated, handled, edits>>
         /\ UNCHANGED <<release, serverVars, questions, suggestionVars, sync, draft, session>>
    ELSE ApiCallThrows("SyntaxError")

\* the component calls the setData the hook returned
SetData(value) ==
    /\ manager.mounted
    /\ Rerender([manager EXCEPT !.data = value])
    /\ UNCHANGED <<doc, cursor, data, loading, error, inflight, nextId,
                   popoverTarget, popoverShown, user, description, subscribed,
                   settled, lastInsert, lastTr, activated, handled, edits>>
    /\ UNCHANGED <<release, serverVars, questions, suggestionVars, sync, draft, session>>

\* ------------------------------------------- Generation Service client
\* the messages of a chat: the prompts, the assistant's function call with
\* its arguments, and the function record made of the parsed arguments
SystemMessage(content) == [role |-> "system", content |-> content]
UserMessage(content) == [role |-> "user", content |-> content]
FunctionRecord(parsedArgs) == [role |-> "function", content |-> parsedArgs]

\* response.choices[0].message of the Generation Service: a function call
\* whose arguments are the JSON text of a pair, a function call whose
\* arguments are not JSON, or plain content
QAPairs == {"qa1", "qa2"}
FunctionCall(args) == [role |-> "assistant", function_call |-> TRUE, content |-> args]
NotJSON == "{"
ResponseMessages ==
    {FunctionCall(args) : args \in QAPairs \cup {NotJSON}}
        \cup {[role |-> "assistant", function_call |-> FALSE, content |-> "text"]}

\* the messageHistory argument: undefined, the empty list the editor starts
\* with, or the messages returned by an earlier request
NoHistory == <<[role |-> "undefined"]>>
MessageHistories ==
    {NoHistory, <<>>,
     <<SystemMessage("earlier prompt"), UserMessage("earlier"),
       FunctionCall("qa1"), FunctionRecord("qa1")>>}

\* messageHistory.map(...).concat([user]) or [system, user], for the
\* systemPrompt and prompt the handler passes
MessageListOf(systemPrompt, prompt, messageHistory) ==
    IF messageHistory = NoHistory
    THEN <<SystemMessage(systemPrompt), UserMessage(prompt)>>
    ELSE [i \in 1..Len(messageHistory) |->
            IF messageHistory[i].role = "system"
            THEN SystemMessage(systemPrompt)
            ELSE messageHistory[i]] \o <<UserMessage(prompt)>>

\* messageHistory.map(...).concat([user]) or [system, user]
MessageList(messageHistory) == MessageListOf("systemPrompt", "prompt", messageHistory)

\* while (true && responses.length < n_qa)
LoopContinues(responses, n_qa) == Len(responses) < n_qa

\* mutant: the returned records are not put into the history
PushRecords_Dropped(messageList, message) == messageList

\* messageList.push(message); messageList.push({ role: "function", ... })
PushRecords(messageList, message) ==
    messageList \o <<message, FunctionRecord(message.content)>>

\* the head of the loop: the next completions.create call is issued and
\* awaited, or the loop ends and getQA returns
LoopHead(q) ==
    IF LoopContinues(q.responses, q.n_qa)
    THEN [q EXCEPT !.pc = "await",
                   !.outstanding = @ + 1,
                   !.issued = Append(@, q.messageList)]
    ELSE [q EXCEPT !.pc = "done"]

\* getQA(systemPrompt, prompt, messageHistory, functions, functionCall, n_qa)
\* up to its first await (base, issued and received are history)
GetQA(messageHistory, n_qa) ==
    /\ qa.pc = "idle"
    /\ qa' = LoopHead([pc |-> "idle", n_qa |-> n_qa,
                       base |-> MessageList(messageHistory),
                       messageList |-> MessageList(messageHistory),
                       responses |-> <<>>, outstanding |-> 0,
                       issued |-> <<>>, received |-> <<>>])
    /\ UNCHANGED <<doc, cursor, data, loading, error, inflight, nextId,
                   popoverTarget, popoverShown, user, description, subscribed,
                   settled, lastInsert, lastTr, activated, handled, edits>>
    /\ UNCHANGED <<release, hookVars, questions, suggestionVars, sync, draft, session>>

\* the awaited call answers: the body of the loop and its next head.
\* JSON.parse throws on arguments that are not JSON and getQA rejects.
Respond(message) ==
    /\ qa.pc = "await"
    /\ LET q == [qa EXCEPT !.outstanding = @ - 1,
                           !.received = Append(@, message)]
       IN qa' = IF message.function_call
                THEN IF message.content = NotJSON
                     THEN [q EXCEPT !.pc = "threw"]
                     ELSE LoopHead([q EXCEPT
                            !.messageList = PushRecords(@, message),
                            !.responses = Append(@, message.content)])
                ELSE [q EXCEPT !.pc = "done"]
    /\ UNCHANGED <<doc, cursor, data, loading, error, inflight, nextId,
                   popoverTarget, popoverShown, user, description, subscribed,
                   settled, lastInsert, lastTr, activated, handled, edits>>
    /\ UNCHANGED <<release, hookVars, questions, suggestionVars, sync, draft, session>>

\* ------------------------------------------- requests and their history
\* figure.ocr_text of the two runs; figure.caption is the same in both
OcrTexts == <<"ocr text 1", "ocr text 2">>
Caption == "caption"
Undefined == "undefined"

\* the flows that send a request: Tab (completion or summary), the Q&A
\* key and the Generate button; the first two keep a message history
Flows == {"completion", "feedback", "draft"}

\* the body apiCall and generateDraft post: the message history of the
\* flow and the fields of the figure whose flag is on
RequestBody(flow, run, ocr) ==
    [flow |-> flow,
     messages |-> IF flow = "feedback" THEN run.messages ELSE run.completionMessages,
     ocr_text |-> IF session.shouldUseFigureText THEN ocr ELSE Undefined,
     caption |-> IF session.shouldUseFigureCaption THEN Caption ELSE Undefined]

\* if (x && x.length) of makePrompt
Given(x) == x # Undefined /\ x # ""

\* makePrompt: the system prompt and the user prompt, the latter as the
\* list of its parts
MakePrompt(systemPrompt, caption, ocr) ==
    [systemPrompt |-> systemPrompt,
     prompt |-> <<"FIGURE TYPE", systemPrompt>>
                  \o (IF Given(caption) THEN <<"CAPTION", caption>> ELSE <<>>)
                  \o (IF Given(ocr) THEN <<"OCR TEXT", ocr>> ELSE <<>>)]

\* completionPrompt() and questionPrompt()
FlowPrompt(flow) == IF flow = "feedback" THEN "questionPrompt" ELSE "completionPrompt"

\* the completion and feedback handlers: the context is added when the
\* request has no message history, and the message list goes to the
\* Generation Service
HandlerMessages(body) ==
    LET shouldAddContext == Len(body.messages) = 0
        made == MakePrompt(IF shouldAddContext THEN FlowPrompt(body.flow) ELSE "",
                           IF shouldAddContext THEN body.caption ELSE "",
                           IF shouldAddContext THEN body.ocr_text ELSE "")
    IN MessageListOf(made.systemPrompt, made.prompt, body.messages)

\* the messages of the answer: the list sent, for a Q&A request with the
\* records of the pair pushed
AnswerMessages(body) ==
    IF body.flow = "feedback"
    THEN PushRecords(HandlerMessages(body), FunctionCall("qa1"))
    ELSE HandlerMessages(body)

\* one run sends the request of a flow; the handlers of the completion and
\* of the Q&A flow pass their message list on and answer with it
SendIn(run, flow, ocr) ==
    LET body == RequestBody(flow, run, ocr)
    IN IF flow = "draft"
       THEN [run EXCEPT !.requests = Append(@, body)]
       ELSE [run EXCEPT !.requests = Append(@, body),
                        !.upstream = Append(@, HandlerMessages(body)),
                        !.awaiting = Append(@, [flow |-> flow,
                                                messages |-> AnswerMessages(body)])]

\* setCompletionMessages(data.messages) / setMessages(feedback.messages)
AnswerIn(run, k) ==
    LET answer == run.awaiting[k]
    IN IF answer.flow = "feedback"
       THEN [run EXCEPT !.messages = answer.messages,
                        !.awaiting = RemoveAt(@, k)]
       ELSE [run EXCEPT !.completionMessages = answer.messages,
                        !.awaiting = RemoveAt(@, k)]

\* a switch of the settings drawer: SET_USE_FIGURE_TEXT, SET_USE_FIGURE_CAPTION
SetUseFigureText(payload) ==
    /\ session' = [session EXCEPT !.shouldUseFigureText = payload]
    /\ UNCHANGED <<doc, cursor, data, loading, error, inflight, nextId,
                   popoverTarget, popoverShown, user, description, subscribed,
                   settled, lastInsert, lastTr, activated, handled, edits>>
    /\ UNCHANGED <<release, hookVars, serverVars, questions, suggestionVars, sync, draft>>

SetUseFigureCaption(payload) ==
    /\ session' = [session EXCEPT !.shouldUseFigureCaption = payload]
    /\ UNCHANGED <<doc, cursor, data, loading, error, inflight, nextId,
                   popoverTarget, popoverShown, user, description, subscribed,
                   settled, lastInsert, lastTr, activated, handled, edits>>
    /\ UNCHANGED <<release, hookVars, serverVars, questions, suggestionVars, sync, draft>>

\* a flow is triggered: both runs send its request
SendRequest(flow) ==
    /\ Len(session.runs[1].requests) < MaxRequests
    /\ session' = [session EXCEPT
            !.runs = [i \in 1..2 |-> SendIn(session.runs[i], flow, OcrTexts[i])]]
    /\ UNCHANGED <<doc, cursor, data, loading, error, inflight, nextId,
                   popoverTarget, popoverShown, user, description, subscribed,
                   settled, lastInsert, lastTr, activated, handled, edits>>
    /\ UNCHANGED <<release, hookVars, serverVars, questions, suggestionVars, sync, draft>>

\* the answer to the k-th awaited request arrives, in both runs
AnswerArrives(k) ==
    /\ k \in 1..Len(session.runs[1].awaiting)
    /\ session' = [session EXCEPT
            !.runs = [i \in 1..2 |-> AnswerIn(session.runs[i], k)]]
    /\ UNCHANGED <<doc, cursor, data, loading, error, inflight, nextId,
                   popoverTarget, popoverShown, user, description, subscribed,
                   settled, lastInsert, lastTr, activated, handled, edits>>
    /\ UNCHANGED <<release, hookVars, serverVars, questions, suggestionVars, sync, draft>>

\* ------------------------------------------------------------ guidelines
\* GUIDELINES flattened by flattenDict: the key of every list of guidelines
\* as its path, the list as the numbered lines under the key
GuidelineLines(key, n) == [i \in 1..n |-> <<key, i>>]
FlatGuidelines ==
    [key \in {"general", "diagram.illustrated.sketch", "diagram.relational.venn",
              "diagram.relational.hierarchy_tree", "diagram.relational.flow",
              "graph.preamble", "graph.levels", "graph.bar", "graph.line",
              "graph.pie", "graph.box", "graph.scatter"} |->
        GuidelineLines(key,
            CASE key = "general" -> 7
              [] key = "diagram.illustrated.sketch" -> 7
              [] key = "diagram.relational.venn" -> 3
              [] key = "diagram.relational.hierarchy_tree" -> 4
              [] key = "diagram.relational.flow" -> 8
              [] key = "graph.preamble" -> 2
              [] key = "graph.levels" -> 4
              [] key = "graph.bar" -> 6
              [] key = "graph.line" -> 3
              [] key = "graph.pie" -> 3
              [] key = "graph.box" -> 1
              [] key = "graph.scatter" -> 2)]

GUIDELINES_MAPPING ==
    ("Area chart" :> <<"general", "graph.preamble", "graph.levels", "graph.line">>)
    @@ ("Bar plots" :> <<"general", "graph.preamble", "graph.levels", "graph.bar">>)
    @@ ("Block diagram" :> <<"general", "diagram.relational.flow">>)
    @@ ("Box plot" :> <<"general", "graph.preamble", "graph.box", "graph.levels">>)
    @@ ("Bubble chart" :> <<"general", "graph.preamble", "graph.levels">>)
    @@ ("Confusion matrix" :> <<"general", "graph.preamble", "graph.levels">>)
    @@ ("Flow chart" :> <<"general", "diagram.relational.flow">>)
    @@ ("Line plot" :> <<"general", "graph.preamble", "graph.levels", "graph.line">>)
    @@ ("Histogram" :> <<"general", "graph.preamble", "graph.levels", "graph.bar">>)
    @@ ("Pareto charts" :> <<"general", "graph.preamble", "graph.levels">>)
    @@ ("Pie chart" :> <<"general", "graph.preamble", "graph.levels", "graph.pie">>)
    @@ ("Polar plot" :> <<"general", "graph.preamble", "graph.levels">>)
    @@ ("Radar chart" :> <<"general", "graph.preamble", "graph.levels">>)
    @@ ("Scatter plot" :> <<"general", "graph.preamble", "graph.levels", "graph.scatter">>)
    @@ ("Sketches" :> <<"general", "diagram.illustrated.sketch">>)
    @@ ("Tree Diagram" :> <<"general", "diagram.relational.hierarchy_tree">>)
    @@ ("Venn Diagram" :> <<"general", "diagram.relational.venn">>)
    @@ ("Other" :> <<"general">>)

\* the properties every object inherits (two of them): the in operator
\* finds them, and their values are functions
ObjectPrototype == {"toString", "constructor"}

\* the figure types a figure can carry: those of the mapping, and types
\* the mapping does not have
FigureTypeInputs ==
    DOMAIN GUIDELINES_MAPPING \cup ObjectPrototype \cup {"Figure", "Table", ""}

\* the outcome of a call: the value returned or the error thrown
Returned(value) == [returns |-> value]
Thrown(e) == [throws |-> e]

\* lists.join("\n"): the lines of the lists in order
RECURSIVE JoinLines(_)
JoinLines(lists) ==
    IF lists = <<>> THEN <<>> ELSE Head(lists) \o JoinLines(Tail(lists))

\* getGuidelines: a type that is not in the mapping is replaced by
\* "Figure", the lists of the type are looked up and joined
GetGuidelines(figureType) ==
    LET ft == IF figureType \in DOMAIN GUIDELINES_MAPPING \cup ObjectPrototype
              THEN figureType ELSE "Figure"
    IN IF ft \in DOMAIN GUIDELINES_MAPPING
       THEN Returned(JoinLines([i \in 1..Len(GUIDELINES_MAPPING[ft]) |->
                                  FlatGuidelines[GUIDELINES_MAPPING[ft][i]]]))
       ELSE Thrown("TypeError")

\* setFigure of the figure store: the figure of the session, with its type
SetFigure(figureType) ==
    /\ figureType # session.figure_type
    /\ session' = [session EXCEPT !.figure_type = figureType]
    /\ UNCHANGED <<doc, cursor, data, loading, error, inflight, nextId,
                   popoverTarget, popoverShown, user, description, subscribed,
                   settled, lastInsert, lastTr, activated, handled, edits>>
    /\ UNCHANGED <<release, hookVars, serverVars, questions, suggestionVars, sync, draft>>

\* a handler (or the metadata view) looks up the guidelines of the figure
LookUpGuidelines ==
    /\ session' = [session EXCEPT !.guidelines = GetGuidelines(session.figure_type)]
    /\ UNCHANGED <<doc, cursor, data, loading, error, inflight, nextId,
                   popoverTarget, popoverShown, user, description, subscribed,
                   settled, lastInsert, lastTr, activated, handled, edits>>
    /\ UNCHANGED <<release, hookVars, serverVars, questions, suggestionVars, sync, draft>>

InitGuidelines ==
    /\ InitRequest
    /\ doc = EmptyDoc
    /\ release = "old"

NextGuidelines ==
    \/ \E figureType \in FigureTypeInputs : SetFigure(figureType)
    \/ LookUpGuidelines

SpecGuidelines == InitGuidelines /\ [][NextGuidelines]_vars

InitSession ==
    /\ InitRequest
    /\ doc = EmptyDoc
    /\ release = "old"

NextSession ==
    \/ \E payload \in BOOLEAN : SetUseFigureText(payload)
    \/ \E payload \in BOOLEAN : SetUseFigureCaption(payload)
    \/ \E flow \in Flows : SendRequest(flow)
    \/ \E k \in 1..MaxRequests : AnswerArrives(k)

SpecSession == InitSession /\ [][NextSession]_vars

\* ------------------------------------------------------------------- Next
\* the completion flow: requests, their settling, the insertion, the logger
NextFetch ==
    \/ \E cur \in Cursors(doc) : MoveCursor(cur)
    \/ FetchData
    \/ \E c \in inflight : \E response \in Responses : Resolve(c, response)
    \/ \E c \in inflight : \E responseError \in ResponseErrors :
            FetchFailed(c, responseError)
    \/ InitializeDescription

SpecFetch == Init /\ [][NextFetch]_vars

\* the accept/reject flow on a document holding provisional spans
NextResolve ==
    \/ \E c \in Chars : TypeChar(c)
    \/ \E i \in 1..Len(doc) : \E lo, hi \in 1..MaxLen : ToggleBold(i, lo, hi)
    \/ \E i \in 1..Len(doc) : \E k \in 0..MaxLen : Click(i, k)
    \/ ClosePopover
    \/ \E action \in {"confirm", "delete"} : HandleEditorAction(action)

SpecResolve == InitResolve /\ [][NextResolve]_vars

\* one completion request, issued at any cursor position of any document
NextRequest ==
    \/ \E cur \in Cursors(doc) : MoveCursor(cur)
    \/ nextId = 1 /\ FetchData
    \/ \E c \in inflight : \E response \in Responses : Resolve(c, response)
    \/ \E c \in inflight : \E responseError \in ResponseErrors :
            FetchFailed(c, responseError)

SpecRequest == InitRequest /\ [][NextRequest]_vars

\* the user edits a document: typing, deleting, formatting, pasting
InitEdit ==
    /\ InitRequest
    /\ release = "old"

NextEdit ==
    \/ \E cur \in Cursors(doc) : MoveCursor(cur)
    \/ \E c \in Chars : TypeChar(c)
    \/ \E c \in Chars \cup {"a"} : TypeOver(c)
    \/ DeleteChar
    \/ \E i \in 1..Len(doc) : \E lo, hi \in 1..MaxLen : ToggleBold(i, lo, hi)
    \/ \E slice \in PasteSlices : Paste(slice)

SpecEdit == InitEdit /\ [][NextEdit]_vars

\* the description record: its initialization while the user writes and
\* completions arrive, and its updates afterwards
InitSync ==
    /\ Init
    /\ release = "old"

NextSync ==
    \/ \E c \in Chars : TypeChar(c)
    \/ FetchData
    \/ \E c \in inflight : \E response \in Responses : Resolve(c, response)
    \/ \E k \in 1..MaxInits : GetDescriptionAnswers(k)
    \/ \E k \in 1..MaxInits : CreateDescriptionAnswers(k)

SpecSync == InitSync /\ [][NextSync]_vars

\* ------------------------------------------- description store updates
\* the restore effect on [descriptionData, current_html, editor]: into an
\* empty editor the current_html of the store is inserted at position 0
\* (an empty paragraph that stays behind the inserted content is left out)
RestoreEffect(d, currentHtml) ==
    IF d = EmptyDoc /\ currentHtml # NotStored /\ currentHtml # EmptyDoc
    THEN currentHtml
    ELSE d

\* the second addSuggestion effect, run because descriptionData is a new
\* object
AddsOnRecord ==
    IF Len(questions') > 0 /\ user' /\ description' # 0
    THEN <<questions'[1]>> ELSE <<>>

\* the Clear button: setShouldClearDescription(true), the clear effect
\* (clearContent, setShouldClearDescription(false)) and the renders
ClearDescription ==
    /\ sync.clears < MaxClears
    /\ doc' = EmptyDoc
    /\ cursor' = [blk |-> 1, off |-> 0]
    /\ popoverTarget' = IF popoverTarget.kind = "el"
                        THEN Detached(InnerText(popoverTarget, doc))
                        ELSE popoverTarget
    /\ lastTr' = IF doc = EmptyDoc THEN NoTransaction
                 ELSE Logged("clear",
                        Transaction(<<Step(0, ContentSize(doc), 0, <<>>)>>, FALSE))
    /\ UNCHANGED <<data, loading, error, inflight, nextId, popoverShown, user,
                   description, settled, lastInsert, edits, activated, handled>>
    /\ UNCHANGED <<release, hookVars, serverVars, questions>>
    /\ subscribed' = UseEventLogger(user', description', subscribed)
    /\ SuggestionEffects(FALSE, suggestions, FALSE)
    /\ DraftEffect(draft.shouldGenerateDraft, draft)
    /\ UNCHANGED session
    /\ SyncEffect([sync EXCEPT !.clears = @ + 1])

\* the answer to the k-th updateDescription call in flight: the store
\* takes the record the service returns, and the effects on descriptionData
\* run (restore, second addSuggestion effect), then the sync effect
UpdateDescriptionAnswers(k) ==
    /\ k \in 1..Len(sync.updates)
    /\ doc' = RestoreEffect(doc, sync.updates[k])
    /\ cursor' = IF doc' = doc THEN cursor
                 ELSE [blk |-> Len(doc'), off |-> Len(doc'[Len(doc')].content)]
    /\ lastTr' = IF doc' = doc THEN NoTransaction
                 ELSE Logged("restore",
                        Transaction(<<Step(0, 0, ContentSize(doc'), <<>>)>>, FALSE))
    /\ UNCHANGED <<data, loading, error, inflight, nextId, popoverTarget,
                   popoverShown, user, description, settled, lastInsert, edits,
                   activated, handled>>
    /\ UNCHANGED <<release, hookVars, serverVars, questions>>
    /\ subscribed' = UseEventLogger(user', description', subscribed)
    /\ SuggestionEffectsOf(AddsOnRecord, suggestions, FALSE)
    /\ DraftEffect(draft.shouldGenerateDraft, draft)
    /\ UNCHANGED session
    /\ SyncEffect([sync EXCEPT !.current = sync.updates[k],
                               !.updates = RemoveAt(@, k)])

\* SummaryModal onClose with a summary: updateDescription of the record
\* the store holds, summarized_version added
CloseSummary ==
    /\ description # 0
    /\ Len(sync.updates) < MaxUpdates
    /\ sync' = IF sync.answers = "atonce"
               THEN [sync EXCEPT !.stored = sync.current]
               ELSE [sync EXCEPT !.stored = sync.current,
                                 !.updates = Append(@, sync.current)]
    /\ UNCHANGED <<doc, cursor, data, loading, error, inflight, nextId,
                   popoverTarget, popoverShown, user, description, subscribed,
                   settled, lastInsert, lastTr, activated, handled, edits>>
    /\ UNCHANGED <<release, hookVars, serverVars, questions, suggestionVars,
                   draft, session>>

\* ---------------------------------------------------------- draft flow
\* the Generate button of GeneratedOptionsView: setShouldGenerateDraft(true)
\* and the render that follows
GenerateClick ==
    /\ draft.clicks < MaxClicks
    /\ lastTr' = NoTransaction
    /\ UNCHANGED <<doc, cursor, data, loading, error, inflight, nextId,
                   popoverTarget, popoverShown, user, description, settled,
                   lastInsert, edits, activated, handled>>
    /\ UNCHANGED <<release, hookVars, serverVars, questions>>
    /\ subscribed' = UseEventLogger(user', description', subscribed)
    /\ SuggestionEffects(FALSE, suggestions, FALSE)
    /\ SyncEffect(sync)
    /\ DraftEffect(draft.shouldGenerateDraft,
                   [draft EXCEPT !.shouldGenerateDraft = TRUE, !.clicks = @ + 1])
    /\ UNCHANGED session

\* the promise of generateDraft() rejects (fetch, response.json() or the
\* call that stores the generated description throws): then() has no
\* rejection handler, so no state is set
DraftFails ==
    /\ draft.pending
    /\ user
    /\ draft' = [draft EXCEPT !.pending = FALSE, !.failed = TRUE]
    /\ UNCHANGED <<doc, cursor, data, loading, error, inflight, nextId,
                   popoverTarget, popoverShown, user, description, subscribed,
                   settled, lastInsert, lastTr, activated, handled, edits>>
    /\ UNCHANGED <<release, hookVars, serverVars, questions, suggestionVars, sync,
                   session>>

\* the promise of generateDraft() resolves: setShouldGenerateDraft(false)
\* and window.location.reload().  The page mounts again: the component state
\* is new, the persisted stores keep their values, the editor takes the
\* current_html of the store, answers to requests of the old page are dropped.
\* The counters nextId, edits, clicks, requests and saved run on.
DraftResolves ==
    /\ draft.pending
    /\ draft' = [draft EXCEPT !.shouldGenerateDraft = FALSE, !.pending = FALSE,
                              !.saved = IF user THEN @ + 1 ELSE @]
    /\ doc' = IF description = 0 \/ sync.current = NotStored
              THEN EmptyDoc ELSE sync.current
    /\ cursor' = [blk |-> 1, off |-> 0]
    /\ data' = NoData
    /\ loading' = FALSE
    /\ error' = NULL
    /\ inflight' = {}
    /\ popoverTarget' = NoTarget
    /\ popoverShown' = FALSE
    /\ settled' = <<>>
    /\ lastInsert' = NotInserted
    /\ lastTr' = NoTransaction
    /\ activated' = <<>>
    /\ handled' = NotHandled
    /\ manager' = Unmounted
    /\ started' = <<>>
    /\ questions' = <<>>
    /\ UNCHANGED <<nextId, edits, user, description, release, serverVars,
                   suggestionVars>>
    /\ session' = [NewSession EXCEPT !.figure_type = session.figure_type,
                                     !.guidelines = session.guidelines]
    /\ subscribed' = UseEventLogger(user', description', 0)
    /\ sync' = IF description = 0
               THEN [sync EXCEPT !.calls = <<InitializeCall("get", doc')>>,
                                 !.updates = <<>>]
               ELSE [sync EXCEPT !.calls = <<>>, !.updates = <<>>,
                                 !.stored = doc']

InitDraft ==
    /\ InitRequest
    /\ release = "old"

NextDraft ==
    \/ GenerateClick
    \/ DraftFails
    \/ DraftResolves
    \/ FetchData
    \/ \E c \in inflight : \E response \in Responses : Resolve(c, response)
    \/ \E c \in inflight : FetchFailed(c, "TypeError")

SpecDraft == InitDraft /\ [][NextDraft]_vars

\* the editor with a description record, the persistence service
\* answering some time after each update
InitStore ==
    /\ doc \in DocsOver(RequestBlocks, 1)
    /\ cursor = [blk |-> 1, off |-> 0]
    /\ data = NoData
    /\ loading = FALSE
    /\ error = NULL
    /\ inflight = {}
    /\ nextId = 1
    /\ popoverTarget = NoTarget
    /\ popoverShown = FALSE
    /\ user = TRUE
    /\ description = 1
    /\ subscribed = 1
    /\ settled = <<>>
    /\ lastInsert = NotInserted
    /\ lastTr = NoTransaction
    /\ activated = <<>>
    /\ handled = NotHandled
    /\ edits = 0
    /\ release = "old"
    /\ sync = [InitializedSync(doc) EXCEPT !.answers = "later"]
    /\ InitOthers

NextStore ==
    \/ \E c \in Chars : TypeChar(c)
    \/ DeleteChar
    \/ ClearDescription
    \/ \E k \in 1..(MaxEdits + MaxClears + MaxUpdates) : UpdateDescriptionAnswers(k)
    \/ CloseSummary
    \/ GenerateClick
    \/ DraftResolves

SpecStore == InitStore /\ [][NextStore]_vars

\* clearDescription of the description store and clearUser of the user
\* store: the record becomes null and the page renders again
StoreClearDescription ==
    /\ description # 0
    /\ description' = 0
    /\ UNCHANGED <<doc, cursor, data, loading, error, inflight, nextId,
                   popoverTarget, popoverShown, user, settled, lastInsert,
                   lastTr, activated, handled, edits>>
    /\ UNCHANGED <<release, hookVars, serverVars, questions>>
    /\ Render

ClearUser ==
    /\ user
    /\ user' = FALSE
    /\ UNCHANGED <<doc, cursor, data, loading, error, inflight, nextId,
                   popoverTarget, popoverShown, description, settled,
                   lastInsert, lastTr, activated, handled, edits>>
    /\ UNCHANGED <<release, hookVars, serverVars, questions>>
    /\ Render

\* the event logger while the stores lose their records and the user edits
InitLogger ==
    /\ InitRequest
    /\ release = "old"

NextLogger ==
    \/ \E c \in Chars : TypeChar(c)
    \/ \E slice \in PasteSlices : Paste(slice)
    \/ StoreClearDescription
    \/ ClearUser

SpecLogger == InitLogger /\ [][NextLogger]_vars

\* failing requests of the completion manager and of the Q&A manager (the
\* request manager mounted with defaultValue [] and autoFetch false)
InitFailure ==
    /\ InitRequest
    /\ release = "old"

NextFailure ==
    \/ FetchData
    \/ \E c \in inflight : \E response \in Responses : Resolve(c, response)
    \/ \E c \in inflight : FetchFailed(c, "TypeError")
    \/ \E c \in inflight : \E body \in NotOkBodies : ResponseNotOk(c, body)
    \/ Mount(JsArray(0), FALSE)
    \/ CallFetchData
    \/ ApiCallThrows("TypeError")
    \/ \E body \in NotOkBodies : ManagerResponseNotOk(body)

SpecFailure == InitFailure /\ [][NextFailure]_vars

\* Q&A requests, their persistence and the list derived from the store
InitSuggest ==
    /\ Init
    /\ release = "old"

NextSuggest ==
    \/ \E result \in QAResults : QuestionsResolve(result)
    \/ \E list \in StoredLists : InitializeSuggestions(list)
    \/ InitializeDescription
    \/ \E c \in Chars : TypeChar(c)

SpecSuggest == InitSuggest /\ [][NextSuggest]_vars

\* one request manager: its mount, its dependencies, its calls
InitManager ==
    /\ Init
    /\ release = "old"

NextManager ==
    \/ \E defaultValue \in DefaultValues : \E autoFetch \in BOOLEAN :
            Mount(defaultValue, autoFetch)
    \/ ChangeDependency
    \/ CallFetchData
    \/ \E response \in DataValues : ApiCallResolves(response)
    \/ \E responseError \in ResponseErrors : ApiCallThrows(responseError)
    \/ \E value \in DataValues : SetData(value)

SpecManager == InitManager /\ [][NextManager]_vars

\* one getQA invocation of the feedback handler
InitQA ==
    /\ Init
    /\ release = "old"

NextQA ==
    \/ \E h \in MessageHistories : \E n \in 0..MaxQA : GetQA(h, n)
    \/ \E message \in ResponseMessages : Respond(message)

SpecQA == InitQA /\ [][NextQA]_vars

\* ================================================================ claims
Actions == {"confirm", "delete"}
Last(seq) == seq[Len(seq)]

\* two settled calls of which one was dispatched while the other was in flight
Overlap(s1, s2) == s1.id \in s2.conc \/ s2.id \in s1.conc

\* C1: when two overlapping fetchData calls have both settled successfully,
\* data is the response of the one that settled last.
C1_LastResolvedWins ==
    \A i \in 1..Len(settled) :
        (/\ i < Len(settled)
         /\ settled[i].ok /\ Last(settled).ok
         /\ Overlap(settled[i], Last(settled)))
            => data = Some(Last(settled).response)

\* C1 witness: the call dispatched first settled last, with another response,
\* and data holds its response.
C1_FirstDispatchedSettledLast ==
    /\ Len(settled) = 2
    /\ settled[1].id = 2 /\ settled[2].id = 1
    /\ 1 \in settled[1].conc
    /\ settled[1].ok /\ settled[2].ok
    /\ settled[1].response # settled[2].response
    /\ data = Some(settled[2].response)

\* a span the lookup of the code finds for text t: a level-6 heading whose
\* first text node is t
SpanFound(block, t) ==
    block.type = "h6" /\ block.content # <<>> /\ FirstChildText(block) = t

\* a provisional node whose full text content is t
SpanWithText(block, t) == block.type = "h6" /\ TextContent(block) = t

\* document e is document d without its block m (an empty paragraph stands
\* for the empty document)
DocWithout(d, m, e) ==
    IF Len(d) = 1 THEN e = EmptyDoc
    ELSE /\ Len(e) = Len(d) - 1
         /\ \A j \in 1..Len(e) : e[j] = IF j < m THEN d[j] ELSE d[j + 1]

\* C2: Accept, when a provisional node's full text equals the captured text,
\* replaces that node by a paragraph with the "generated" mark and the same
\* text; the plain text and every other node stay as they were.
C2_AcceptReplacesSpan ==
    [][(/\ HandleEditorAction("confirm")
        /\ popoverTarget # NoTarget
        /\ \E i \in 1..Len(doc) : SpanWithText(doc[i], InnerText(popoverTarget, doc)))
        => LET t == InnerText(popoverTarget, doc)
           IN /\ \E m \in 1..Len(doc) :
                    /\ SpanWithText(doc[m], t)
                    /\ doc' = ReplaceAt(doc, m, Paragraph(PlainContent(t), TRUE))
              /\ PlainText(doc') = PlainText(doc)]_vars

\* C3: Reject, when the lookup finds a span, deletes exactly that block; every
\* other block is the same, in the same order.
C3_RejectDeletesExactly ==
    [][(/\ HandleEditorAction("delete")
        /\ popoverTarget # NoTarget
        /\ \E i \in 1..Len(doc) : SpanFound(doc[i], InnerText(popoverTarget, doc)))
        => \E m \in 1..Len(doc) :
              /\ SpanFound(doc[m], InnerText(popoverTarget, doc))
              /\ DocWithout(doc, m, doc')]_vars

\* C3 witness: a reject found its span and deleted it, other content remains.
C3_RejectedAmongOthers ==
    /\ handled.action = "delete" /\ handled.matched
    /\ lastTr.origin = "delete"
    /\ doc # EmptyDoc

\* C4: when the lookup finds no span for the captured text, Accept and Reject
\* leave the document as it is and dispatch no transaction.
C4_NoMatchNoChange ==
    [][\A a \in Actions :
        (/\ HandleEditorAction(a)
         /\ popoverTarget # NoTarget
         /\ \A i \in 1..Len(doc) : ~SpanFound(doc[i], InnerText(popoverTarget, doc)))
        => doc' = doc /\ lastTr' = NoTransaction]_vars

\* C4 witness: an action was handled for an activated span and found nothing.
C4_HandledWithoutMatch ==
    /\ handled.action # "none"
    /\ handled.text # <<>>
    /\ ~handled.matched
    /\ lastTr = NoTransaction

\* the unformatted provisional spans with text t
PlainSpans(d, t) ==
    {i \in 1..Len(d) : d[i].type = "h6" /\ d[i].content = PlainContent(t)}

\* C5: with two provisional spans of identical text, Accept/Reject acts on
\* the first of them in document order and on no other.
C5_FirstSpanIsMatched ==
    [][\A a \in Actions :
        (/\ HandleEditorAction(a)
         /\ popoverTarget # NoTarget
         /\ Cardinality(PlainSpans(doc, InnerText(popoverTarget, doc))) >= 2)
        => LET t == InnerText(popoverTarget, doc)
               first == CHOOSE i \in PlainSpans(doc, t) :
                            \A j \in PlainSpans(doc, t) : i <= j
           IN doc' = IF a = "confirm"
                     THEN ReplaceAt(doc, first, Paragraph(PlainContent(t), TRUE))
                     ELSE RemoveAt(doc, first)]_vars

\* C6 as stated: once the text of the activated span differs from the text
\* it had when activated, Accept/Reject finds nothing and changes nothing.
C6_LookupUsesActivationText ==
    [][\A a \in Actions :
        (/\ HandleEditorAction(a)
         /\ popoverTarget.kind = "el"
         /\ TextContent(doc[popoverTarget.idx]) # activated)
        => doc' = doc]_vars

\* a block with a single text node
Unformatted(block) == FirstChildLen(block.content) = Len(block.content)

\* C6 amended: the lookup text is the text the activated element has when
\* Accept/Reject is handled; an unformatted non-empty span is found with it
\* and the document changes, also after the span's text was edited.
C6_LookupUsesCurrentText ==
    [][\A a \in Actions :
        (/\ HandleEditorAction(a)
         /\ popoverTarget.kind = "el")
        => /\ handled'.text = TextContent(doc[popoverTarget.idx])
           /\ (/\ Unformatted(doc[popoverTarget.idx])
               /\ doc[popoverTarget.idx].content # <<>>) => doc' # doc]_vars

\* C6 witness: a span edited between activation and Accept/Reject was found.
C6_EditedSpanResolved ==
    /\ handled.matched
    /\ handled.text # handled.activated

\* C7: Accept right after a successful Accept, with no activation in between,
\* leaves the document as it is.
C7_SecondAcceptIsNoOp ==
    [][(/\ HandleEditorAction("confirm")
        /\ handled.action = "confirm"
        /\ handled.matched)
        => doc' = doc]_vars

\* C7 witness: Accept was handled a second time after a successful Accept.
C7_AcceptedTwice ==
    /\ handled.action = "confirm"
    /\ handled.again

\* C8: after Accept or Reject was handled for an activated span, found or
\* not, completion.data is null, the target is cleared, the popover closed.
C8_HandledClearsState ==
    [][\A a \in Actions :
        (HandleEditorAction(a) /\ popoverTarget # NoTarget)
        => /\ data' = NoData
           /\ popoverTarget' = NoTarget
           /\ ~popoverShown']_vars

\* C8 witness: an action that found its span left the cleared state.
C8_ClearedAfterMatch ==
    /\ handled.action # "none"
    /\ handled.matched
    /\ data = NoData
    /\ popoverTarget = NoTarget
    /\ ~popoverShown

\* C9: a completion is inserted at the cursor position that split the
\* document when its request was issued, also when the user moved the cursor
\* meanwhile (stated for a document that is the same as at the request, so
\* that the position of the request still names the same place).
C9_InsertedAtRequestPosition ==
    (lastInsert.id # 0 /\ lastInsert.sameDoc)
        => lastInsert.at = lastInsert.reqPos

\* C10: the insertion of a completion result emits no key_press event.
C10_InsertionNotLogged ==
    lastTr.origin = "completion"
        => \A i \in 1..Len(lastTr.events) : lastTr.events[i].event_type # "key_press"

\* C11 as stated: a completion request goes to /api/completion if and only
\* if the text before the cursor is non-empty, else to /api/summary.
C11_EndpointByTextBefore ==
    \A c \in inflight :
        (c.endpoint = "/api/completion") <=> (c.textBefore # <<>>)

\* C11 amended: a completion request goes to /api/completion if and only if
\* the text before the cursor joined with the text after it is non-empty,
\* and to /api/summary otherwise.
C11_EndpointByWholeText ==
    \A c \in inflight :
        /\ c.endpoint \in {"/api/completion", "/api/summary"}
        /\ (c.endpoint = "/api/completion") <=> (c.textBefore \o c.textAfter # <<>>)

\* C11 witness: a request issued with no text before the cursor and text
\* after it went to /api/completion.
C11_ContinuationAtDocumentStart ==
    \E c \in inflight :
        /\ c.textBefore = <<>>
        /\ c.textAfter # <<>>
        /\ c.endpoint = "/api/completion"

\* C12: for every document and cursor position of a completion request, the
\* text before the cursor joined with the text after it is the document's
\* plain text.
C12_BeforePlusAfterIsPlainText ==
    \A c \in inflight : c.textBefore \o c.textAfter = GetText(release, c.doc)

\* the rounds of an invocation whose response was no function call
Unstructured(q) == {i \in 1..Len(q.received) : ~q.received[i].function_call}

\* C13: a getQA invocation with count N that has ended issued exactly N calls
\* and returns N pairs when every response was a function call; when the
\* k-th response was none, it issued exactly k calls and returns k-1 pairs.
C13_CallsAndPairs ==
    (qa.pc \in {"done", "threw"}) =>
        IF Unstructured(qa) = {}
        THEN /\ qa.pc = "done"
             /\ Len(qa.issued) = qa.n_qa
             /\ Len(qa.responses) = qa.n_qa
        ELSE \E k \in Unstructured(qa) :
                /\ \A j \in Unstructured(qa) : k <= j
                /\ k <= qa.n_qa
                /\ qa.pc = "done"
                /\ Len(qa.issued) = k
                /\ Len(qa.responses) = k - 1

RECURSIVE RecordsOf(_)
\* the records the rounds with these responses add to the history
RecordsOf(responses) ==
    IF responses = <<>> THEN <<>>
    ELSE RecordsOf(SubSeq(responses, 1, Len(responses) - 1))
            \o <<FunctionCall(Last(responses)), FunctionRecord(Last(responses))>>

\* C14: at most one call of an invocation is outstanding, and the request of
\* round k+1 carries the initial history extended with the records returned
\* in rounds 1..k.
C14_SequentialWithHistory ==
    qa.pc # "idle" =>
        /\ qa.outstanding <= 1
        /\ \A k \in 1..Len(qa.issued) :
              /\ k - 1 <= Len(qa.responses)
              /\ qa.issued[k] = qa.base \o RecordsOf(SubSeq(qa.responses, 1, k - 1))

\* C14 witness: a third round was requested with the records of two rounds.
C14_ThirdRoundIssued ==
    /\ qa.pc = "await"
    /\ Len(qa.issued) = 3
    /\ Len(qa.responses) = 2
    /\ qa.outstanding = 1

\* C15: every pair of questions.data is persisted as a Suggestion of type
\* "qa" for the current description and user, also a pair that was returned
\* before the description record was there.
C15_EveryPairPersisted ==
    (user /\ description # 0) =>
        \A i \in 1..Len(questions) :
            \E k \in 1..Len(persisted) :
                /\ persisted[k].content = questions[i]
                /\ persisted[k].suggestion_type = "qa"
                /\ persisted[k].description_id = description

\* the Q&A records of the store with the key of entry e
SameKey(list, e) ==
    {i \in 1..Len(list) :
        /\ list[i].suggestion_type = "qa"
        /\ list[i].content.question = e.question
        /\ list[i].content.suggested_answer1 = e.suggested_answer1}

\* C16: the rendered list has no two entries with the same (question,
\* suggested_answer1); the Q&A records of the store that share a pair are
\* rendered as one entry, the newest; the entries are ordered newest first.
C16_RenderedDeduplicated ==
    LET rendered == TimeOrderedQuestions(allQuestions)
    IN /\ \A i, j \in 1..Len(rendered) :
             (/\ rendered[i].question = rendered[j].question
              /\ rendered[i].suggested_answer1 = rendered[j].suggested_answer1)
                => i = j
       /\ \A i, j \in 1..Len(rendered) :
             i < j => rendered[i].date >= rendered[j].date
       /\ \A s \in 1..Len(suggestions) :
             suggestions[s].suggestion_type = "qa" =>
                \E i \in 1..Len(rendered) :
                    /\ s \in SameKey(suggestions, rendered[i])
                    /\ \A t \in SameKey(suggestions, rendered[i]) :
                          suggestions[t].date_suggested <= rendered[i].date

\* C16 witness: two records of the store share a pair and have different
\* dates, a third has another pair; two entries are rendered.
C16_DuplicateRenderedOnce ==
    /\ Len(suggestions) = 3
    /\ \E s, t \in 1..3 :
          /\ s # t
          /\ suggestions[s].suggestion_type = "qa"
          /\ suggestions[t].suggestion_type = "qa"
          /\ suggestions[s].content = suggestions[t].content
          /\ suggestions[s].date_suggested # suggestions[t].date_suggested
    /\ Len(allQuestions) = 3
    /\ Len(TimeOrderedQuestions(allQuestions)) = 2

\* C17: when apiCall fails, error becomes the one generic message whatever
\* was thrown, data stays as it was, and loading becomes false.
C17_GenericErrorOnFailure ==
    [][(/\ Len(settled') = Len(settled) + 1
        /\ ~settled'[Len(settled')].ok)
          => (/\ error' = ErrorMessage
              /\ data' = data
              /\ loading' = FALSE)]_vars

\* C17 witness: a call failed after another had set data; the data is still
\* there, the error is the generic message and loading is false.
C17_FailedAfterData ==
    /\ Len(settled) = 2
    /\ settled[1].ok /\ ~settled[2].ok
    /\ settled[2].cause = "SyntaxError"
    /\ data = Some(settled[1].response)
    /\ error = ErrorMessage
    /\ loading = FALSE

\* C18: a fetchData call sets loading to true and error to null when it
\* starts, and loading to false when its apiCall settles, resolved or
\* failed.
C18_LoadingBracketsCall ==
    [][/\ nextId' # nextId => (loading' = TRUE /\ error' = NULL)
       /\ Len(settled') # Len(settled) => loading' = FALSE]_vars

\* C18 witness: of two overlapping calls one has settled and loading is
\* false while the other is still in flight.
C18_SettledWhileOtherPending ==
    /\ Len(settled) = 1
    /\ inflight # {}
    /\ loading = FALSE

\* null or an empty list
IsEmpty(v) == v.type = "null" \/ (v.type = "array" /\ v.len = 0)

\* C19: whenever the effect runs, on mount or after a dependency change,
\* with shouldFetch true and data still empty (null or an empty list), it
\* starts a fetch.
C19_FetchesWhileEmpty ==
    \A i \in 1..Len(started) :
        (started[i].shouldFetch /\ IsEmpty(started[i].data))
            => started[i].fetched

\* C20: a step that changes data and no dependency starts no fetch.
C20_DataChangeStartsNoFetch ==
    [][(/\ manager.mounted /\ manager'.mounted
        /\ manager'.data # manager.data
        /\ manager'.dependencies = manager.dependencies)
          => manager'.fetches = manager.fetches]_vars

\* C20 witness: the fetch started on mount is over and has left data
\* changed and still falsy, shouldFetch is true, no dependency has changed,
\* and no second fetch was started.
C20_NoSecondFetch ==
    /\ manager.mounted
    /\ manager.shouldFetch
    /\ Len(started) = 1 /\ started[1].fetched
    /\ manager.dependencies = 0
    /\ manager.pending = 0
    /\ manager.data # manager.defaultValue
    /\ ~ToBoolean(manager.data)
    /\ manager.fetches = 1

\* a step that carries a slice (a replace step; a mark step has none)
HasSlice(step) == step.size >= 0

\* C21: a document-changing transaction flagged as a paste whose inserted
\* content is not empty emits exactly one paste_action event, carrying the
\* text of the first inserted node, and nothing else.
C21_OnePasteAction ==
    (/\ lastTr.handlers > 0
     /\ lastTr.tr.docChanged /\ lastTr.tr.paste
     /\ Last(lastTr.tr.steps).size > 0)
        => lastTr.events = <<PasteAction(Last(lastTr.tr.steps).text)>>

\* the key the statement gives a step: "Input" for an empty replaced
\* range, "Backspace or Delete" for a range replaced by nothing, "Input"
\* for a range replaced by something
KeyOf(step) ==
    IF step.from = step.to THEN "Input"
    ELSE IF step.size = 0 THEN "Backspace or Delete"
    ELSE "Input"

\* C22 as stated: a document-changing transaction that is no paste emits
\* exactly one key_press event for each of its steps; a transaction that
\* does not change the document emits nothing.
C22_OneKeyPressPerStep ==
    lastTr.handlers > 0 =>
        /\ (lastTr.tr.docChanged /\ ~lastTr.tr.paste) =>
              /\ Len(lastTr.events) = Len(lastTr.tr.steps)
              /\ \A i \in 1..Len(lastTr.events) :
                    lastTr.events[i] = KeyPress(KeyOf(lastTr.tr.steps[i]))
        /\ ~lastTr.tr.docChanged => lastTr.events = <<>>

\* C22 amended: each step that replaces a range emits exactly one
\* key_press event with the key of the statement, a step without a slice
\* (a mark step) emits none; a transaction that does not change the
\* document emits nothing.
C22_OneKeyPressPerReplaceStep ==
    lastTr.handlers > 0 =>
        /\ (lastTr.tr.docChanged /\ ~lastTr.tr.paste) =>
              LET replaced == SelectSeq(lastTr.tr.steps, HasSlice)
              IN /\ Len(lastTr.events) = Len(replaced)
                 /\ \A i \in 1..Len(replaced) :
                       lastTr.events[i] = KeyPress(KeyOf(replaced[i]))
        /\ ~lastTr.tr.docChanged => lastTr.events = <<>>

\* C22 witness: a Backspace was logged as one "Backspace or Delete".
C22_BackspaceLogged ==
    /\ lastTr.origin = "backspace"
    /\ lastTr.handlers > 0
    /\ lastTr.events = <<KeyPress("Backspace or Delete")>>

\* C23: however often the editor component has rendered, at most one
\* handler of the event logger is subscribed, and a transaction is
\* classified and forwarded once.
C23_OneHandler ==
    /\ subscribed <= 1
    /\ lastTr.handlers <= 1
    /\ lastTr.handlers = 1 => lastTr.events = UpdateHandler(lastTr.tr)

\* C23 witness: after the description was initialized and two requests
\* have settled (six renders or more), the insertion of a completion was
\* forwarded by the one handler.
C23_ForwardedOnceAfterRenders ==
    /\ Len(settled) = 2
    /\ subscribed = 1
    /\ lastTr.origin = "completion"
    /\ lastTr.handlers = 1
    /\ Len(lastTr.events) = 1

\* the provisional spans of a document: its <h6> blocks
Provisional(d) == {i \in 1..Len(d) : d[i].type = "h6"}

\* C24: the document never holds more than one provisional span, also
\* when a second completion is requested before the first is resolved.
C24_AtMostOneProvisional == Cardinality(Provisional(doc)) <= 1

\* C25: the persisted Description never holds the content of a provisional
\* span: no <h6> block is among what was written to the record.
C25_ProvisionalNotPersisted ==
    \A i \in 1..Len(sync.stored) : sync.stored[i].type # "h6"

\* C26: for one figure at most one create request for a Description is
\* issued, also when the text changes while the first initialize call is
\* in flight.
C26_OneCreateRequest == sync.creates <= 1

C28_GatedFlowsSkipped ==
    [][(~user \/ description = 0)
        => (inflight' \subseteq inflight /\ (error' # NULL => error # NULL))]_vars

\* C29: after a failed request nothing re-issues it (a request is only
\* issued by the step of a user trigger), and the next user trigger of the
\* same flow issues a new request: Tab after a failed completion, Generate
\* after a failed draft.
C29_RetriggerAfterFailure ==
    [][/\ draft'.requests > draft.requests => draft'.clicks > draft.clicks
       /\ inflight' \ inflight # {} => nextId' = nextId + 1
       /\ (error = ErrorMessage /\ nextId' = nextId + 1)
            => inflight' \ inflight # {}
       /\ (draft.failed /\ draft'.clicks > draft.clicks)
            => draft'.requests = draft.requests + 1]_vars

\* C30: a record that addSuggestion has appended to the suggestion list
\* stays in the list, whatever step follows: a later addSuggestion or the
\* answer to a suggestion-list initialization.
C30_AppendedStays ==
    [][\A i \in 1..Len(persisted) :
          (\E j \in 1..Len(suggestions) : suggestions[j] = persisted[i])
            => (\E j \in 1..Len(suggestions') : suggestions'[j] = persisted[i])]_vars

\* C31: a request sent while the figure-text flag is off is the same in
\* two runs that differ in the figure text only, whatever was requested
\* before in the session.
C31_DisabledFieldNotSent ==
    \A k \in 1..Len(session.runs[1].requests) :
        session.runs[1].requests[k].ocr_text = Undefined
            => session.runs[1].requests[k] = session.runs[2].requests[k]

\* C32: no step of the draft flow and no Q&A answer changes the document.
C32_FlowsLeaveDocument ==
    [][(draft' # draft \/ questions' # questions) => doc' = doc]_vars

\* C33: once the user has emptied the editor (Clear, or deleting all the
\* text), the answer to a description update does not put content into it.
C33_NoReinsertion ==
    [][(/\ doc = EmptyDoc
        /\ (edits > 0 \/ sync.clears > 0)
        /\ \E k \in 1..Len(sync.updates) : UpdateDescriptionAnswers(k))
        => doc' = EmptyDoc]_vars

\* C34: when no description update is in flight, the description of the
\* store has the text of the editor as its current_string.
C34_StoreHasEditorText ==
    (description # 0 /\ sync.updates = <<>> /\ sync.calls = <<>>)
        => GetText(release, sync.current) = GetText(release, doc)

\* C35: a step that brings no new Q&A answer (typing, a change of the user
\* or of the description record) persists no Suggestion for a pair that
\* is persisted already.
C35_PersistedOnce ==
    [][~(\E result \in QAResults : QuestionsResolve(result))
        => \A i \in (Len(persisted) + 1)..Len(persisted') :
              \A j \in 1..Len(persisted) :
                 persisted[j].content # persisted'[i].content]_vars

\* C36: every completion answer with non-empty text is inserted as a
\* provisional span by the step that takes it, also when the text is that
\* of the completion before.
C36_EveryAnswerInserted ==
    [][\A c \in inflight : \A response \in Responses :
          (Resolve(c, response) /\ Len(response) > 0)
            => (lastInsert'.id = c.id
                /\ Cardinality(Provisional(doc')) = Cardinality(Provisional(doc)) + 1)]_vars

\* C37: loading of the completion manager is true exactly while one of its
\* apiCall invocations is in flight.
C37_LoadingIffInFlight == loading = (inflight # {})

\* C38: every message list the completion and the Q&A handlers pass to the
\* Generation Service holds a system message with a non-empty system prompt.
C38_SystemMessageSent ==
    \A i \in 1..Len(session.runs) :
        \A k \in 1..Len(session.runs[i].upstream) :
            \E m \in 1..Len(session.runs[i].upstream[k]) :
                /\ session.runs[i].upstream[k][m].role = "system"
                /\ session.runs[i].upstream[k][m].content # ""

\* C39: a transaction dispatched while the user or the description record
\* is missing makes the event logger emit no event.
C39_NoEventWithoutContext ==
    [][(lastTr' # lastTr /\ (~user \/ description = 0))
        => lastTr'.events = <<>>]_vars

\* C40: every call of getGuidelines returns a guideline string, for a
\* figure type of the mapping and for any other type.
C40_GuidelinesForEveryType ==
    session.guidelines # NotCalled => "returns" \in DOMAIN session.guidelines
====
